---- MODULE Spec2Model ----
(***************************************************************************)
(* Model of src/src/App.jsx: the seating-chart editor's state, its         *)
(* Normalizer (migrateLegacy), the Standard-Code Cleaner (cleanStandard),  *)
(* the Default-State Constructor (DEFAULT_STATE) and the state transitions *)
(* of the App component.                                                   *)
(*                                                                         *)
(* JavaScript values are modelled as tagged records [t |-> type, ...]:    *)
(* strings are TLA+ strings, numbers are rationals n/Den held as the       *)
(* numerator n, arrays are sequences (plus the named properties the code   *)
(* may set on them), objects are functions from property names to values.  *)
(* A property that is absent from an object reads as undefined.            *)
(***************************************************************************)
EXTENDS Integers, Sequences, FiniteSets, TLC

VARIABLES
    code, res1, res2, pcC,      \* cleanStandard: input, one and two applications
    raw, out, pcM,              \* migrateLegacy: input text, returned state
    state, nextUid, store,      \* App: React state, uid() draws so far, local store
    last, streak,               \* App: the last event, and the run of level cycles
    prior,                      \* App: the state object replaced by the last update
    moveMode, moveSource,       \* App: swap mode and its first pick
    dragging,                   \* App: the desk picked up in the free layout
    writable,                   \* whether the local store accepts a write
    rowsIn, colsIn,             \* App: rows and cols, the inputs of ResizeLayout
    inflight                    \* App: texts of the imports whose read is pending

cvars == <<code, res1, res2, pcC>>
mvars == <<raw, out, pcM>>
uivars == <<moveMode, moveSource, dragging, rowsIn, colsIn, inflight>>
avars == <<state, nextUid, store, last, streak, prior, uivars, writable>>
vars == <<cvars, mvars, avars>>

----------------------------------------------------------------------------
(* JavaScript values *)

\* Numbers are multiples of 1/Den: Num(n) is the number n/Den.
Den == 2

Undef == [t |-> "undefined"]
Null == [t |-> "null"]
Bool(b) == [t |-> "boolean", b |-> b]
Num(n) == [t |-> "number", n |-> n]
Whole(i) == Num(i * Den)
Str(s) == [t |-> "string", s |-> s]
NoProps == <<>>
Arr(a) == [t |-> "array", a |-> a, p |-> NoProps]
Obj(o) == [t |-> "object", o |-> o]

IsArray(x) == x.t = "array"
IsString(x) == x.t = "string"
IsNumber(x) == x.t = "number"
\* x && typeof x === "object"
IsObjectLike(x) == x.t \in {"object", "array"}
\* !!x
Truthy(x) ==
    CASE x.t \in {"undefined", "null"} -> FALSE
      [] x.t = "boolean" -> x.b
      [] x.t = "number" -> x.n # 0
      [] x.t = "string" -> x.s # ""
      [] OTHER -> TRUE

\* x.k, for x neither null nor undefined
Get(x, k) ==
    CASE x.t = "object" -> IF k \in DOMAIN x.o THEN x.o[k] ELSE Undef
      [] x.t = "array" -> IF k \in DOMAIN x.p THEN x.p[k] ELSE Undef
      [] OTHER -> Undef

\* x.k = y, for x an object or an array
Set(x, k, y) ==
    IF x.t = "object"
    THEN [x EXCEPT !.o = (k :> y) @@ x.o]
    ELSE [x EXCEPT !.p = (k :> y) @@ x.p]

\* a === b and SameValueZero(a, b) on values read from parsed JSON: two objects
\* or arrays at different places of a document are never the same reference.
StrictEq(a, b) ==
    /\ a.t = b.t
    /\ a.t \notin {"object", "array"}
    /\ a = b

\* Number.isFinite(x): JSON holds no NaN
IsFinite(x) == x.t = "number"

\* F(x) with x evaluated once, however often F uses it
Bind(x, F(_)) == CHOOSE z \in {F(y) : y \in {x}} : TRUE

Min(a, b) == IF a < b THEN a ELSE b
Max(a, b) == IF a > b THEN a ELSE b

\* a % b of JavaScript on numerators (b > 0): the sign follows the dividend
JsRem(a, b) == IF a >= 0 THEN a % b ELSE -((-a) % b)

----------------------------------------------------------------------------
(* Utilities and defaults *)

\* uid(): the k-th draw of the session. Draws are modelled as never colliding
\* with each other or with an id of a loaded document.
uid(k) == "#" \o ToString(k)

\* DEFAULT_STATE: a 4 x 6 class of 24 generated students
DefaultRows == 4
DefaultCols == 6
DefaultStudents == 24
\* uid() draws of one DEFAULT_STATE() call: classId, s1, s2 and one per student
DefaultDraws == 3 + DefaultStudents

\* a DEFAULT_STATE() that draws one id for all its students
DEFAULT_STATE_OneDraw(k) ==
    LET classId == uid(k + 1)
        s1 == uid(k + 2)
        s2 == uid(k + 3)
        students == [i \in 1..DefaultStudents |->
                        Obj([id |-> Str(uid(k + 4)),
                             name |-> Str("Student " \o ToString(i))])]
        seats == [j \in 1..(DefaultRows * DefaultCols) |->
                    Obj([r |-> Whole((j - 1) \div DefaultCols),
                         c |-> Whole((j - 1) % DefaultCols),
                         studentId |-> IF j <= Len(students)
                                       THEN Get(students[j], "id") ELSE Null])]
        skills == <<
            Obj([id |-> Str(s1), name |-> Str("Distributive Property - Basic"),
                 domain |-> Str("Expressions & Equations"),
                 standardCode |-> Str("EE.*"), classIds |-> Arr(<<Str(classId)>>)]),
            Obj([id |-> Str(s2), name |-> Str("Distribute with Negative Numbers"),
                 domain |-> Str("Expressions & Equations"),
                 standardCode |-> Str("EE.*"), classIds |-> Arr(<<Str(classId)>>)]) >>
        marks == Obj((s1 :> Obj(NoProps)) @@ (s2 :> Obj(NoProps)))
    IN Obj([classes |-> Arr(<<
                Obj([id |-> Str(classId), name |-> Str("Period 1"),
                     rows |-> Whole(DefaultRows), cols |-> Whole(DefaultCols),
                     seats |-> Arr(seats), students |-> Arr(students),
                     marks |-> marks, layoutMode |-> Str("grid")]) >>),
            skills |-> Arr(skills),
            selectedClassId |-> Str(classId),
            selectedSkillId |-> Str(s1)])

\* DEFAULT_STATE() called after k draws of uid()
DEFAULT_STATE(k) ==
    LET classId == uid(k + 1)
        s1 == uid(k + 2)
        s2 == uid(k + 3)
        students == [i \in 1..DefaultStudents |->
                        Obj([id |-> Str(uid(k + 3 + i)),
                             name |-> Str("Student " \o ToString(i))])]
        seats == [j \in 1..(DefaultRows * DefaultCols) |->
                    Obj([r |-> Whole((j - 1) \div DefaultCols),
                         c |-> Whole((j - 1) % DefaultCols),
                         studentId |-> IF j <= Len(students)
                                       THEN Get(students[j], "id") ELSE Null])]
        skills == <<
            Obj([id |-> Str(s1), name |-> Str("Distributive Property - Basic"),
                 domain |-> Str("Expressions & Equations"),
                 standardCode |-> Str("EE.*"), classIds |-> Arr(<<Str(classId)>>)]),
            Obj([id |-> Str(s2), name |-> Str("Distribute with Negative Numbers"),
                 domain |-> Str("Expressions & Equations"),
                 standardCode |-> Str("EE.*"), classIds |-> Arr(<<Str(classId)>>)]) >>
        marks == Obj((s1 :> Obj(NoProps)) @@ (s2 :> Obj(NoProps)))
    IN Obj([classes |-> Arr(<<
                Obj([id |-> Str(classId), name |-> Str("Period 1"),
                     rows |-> Whole(DefaultRows), cols |-> Whole(DefaultCols),
                     seats |-> Arr(seats), students |-> Arr(students),
                     marks |-> marks, layoutMode |-> Str("grid")]) >>),
            skills |-> Arr(skills),
            selectedClassId |-> Str(classId),
            selectedSkillId |-> Str(s1)])

----------------------------------------------------------------------------
(* Standard-Code Cleaner *)

NC7 == "NC.7."

\* /^NC\.7\./ matches
HasNC7(s) == Len(s) >= Len(NC7) /\ SubSeq(s, 1, Len(NC7)) = NC7

cleanStandard(c) ==
    IF c.t # "string" THEN c
    ELSE IF HasNC7(c.s) THEN Str(SubSeq(c.s, Len(NC7) + 1, Len(c.s)))
    ELSE c

----------------------------------------------------------------------------
(* Migration/Normalizer *)

\* A text is [ok |-> whether it is well-formed JSON, doc |-> the value it
\* denotes]. JSON.parse throws on the others.
JSON_parse(text) == text.doc

\* String(x) as a template literal computes it, for a truthy x
RECURSIVE JsToString(_)
JsToString(x) ==
    CASE x.t = "string" -> x.s
      [] x.t = "number" ->
            IF x.n % Den = 0 THEN ToString(x.n \div Den)
            ELSE (IF x.n < 0 THEN "-" ELSE "")
                    \o ToString((IF x.n < 0 THEN -x.n ELSE x.n) \div Den) \o "."
                    \o ToString((((IF x.n < 0 THEN -x.n ELSE x.n) % Den) * 10) \div Den)
      [] x.t = "boolean" -> IF x.b THEN "true" ELSE "false"
      [] x.t = "array" ->
            IF x.a = <<>> THEN ""
            ELSE LET first == IF Head(x.a).t \in {"null", "undefined"} THEN ""
                              ELSE JsToString(Head(x.a))
                 IN IF Len(x.a) = 1 THEN first
                    ELSE first \o "," \o JsToString(Arr(Tail(x.a)))
      [] OTHER -> "[object Object]"

\* `${name}|${domain || ""}|${standardCode || ""}`
SkillKey(name, domain, standardCode) ==
    name.s \o "|" \o (IF Truthy(domain) THEN JsToString(domain) ELSE "")
           \o "|" \o (IF Truthy(standardCode) THEN JsToString(standardCode) ELSE "")

\* The index of the first element of seq satisfying Test, 0 if there is none
FirstIndex(seq, Test(_)) ==
    LET hits == {j \in 1..Len(seq) : Test(seq[j])}
    IN IF hits = {} THEN 0 ELSE CHOOSE j \in hits : \A m \in hits : j <= m

\* arr.includes(x)
Includes(arr, x) == \E j \in 1..Len(arr) : StrictEq(arr[j], x)

\* The skills list path: filter objects, coerce each field
RECURSIVE SanitizeSkills(_, _)
SanitizeSkills(ss, k) ==
    IF ss = <<>> THEN [v |-> <<>>, k |-> k]
    ELSE LET s == Head(ss)
         IN IF ~IsObjectLike(s) THEN SanitizeSkills(Tail(ss), k)
            ELSE LET keep == IsString(Get(s, "id"))
                     k1 == IF keep THEN k ELSE k + 1
                     sk == Obj([
                        id |-> IF keep THEN Get(s, "id") ELSE Str(uid(k1)),
                        name |-> IF IsString(Get(s, "name")) THEN Get(s, "name")
                                 ELSE Str("(unnamed skill)"),
                        domain |-> IF IsString(Get(s, "domain")) THEN Get(s, "domain")
                                   ELSE Undef,
                        standardCode |-> cleanStandard(Get(s, "standardCode")),
                        classIds |-> IF IsArray(Get(s, "classIds"))
                                     THEN Arr(SelectSeq(Get(s, "classIds").a, Truthy))
                                     ELSE Arr(<<>>)])
                 IN Bind(SanitizeSkills(Tail(ss), k1),
                         LAMBDA rest : [v |-> <<sk>> \o rest.v, k |-> rest.k])

\* seen.get(key)
SeenGet(seen, key) == IF key \in DOMAIN seen THEN Str(seen[key]) ELSE Undef

\* The body of clSkills.forEach for one nested entry sk of the class with id
\* clId; acc is [lifted, seen, k]
LiftOne(sk, clId, acc) ==
    IF ~IsObjectLike(sk) THEN acc
    ELSE LET name == IF IsString(Get(sk, "name")) THEN Get(sk, "name")
                     ELSE Str("(unnamed skill)")
             domain == IF IsString(Get(sk, "domain")) THEN Get(sk, "domain") ELSE Undef
             standardCode == cleanStandard(Get(sk, "standardCode"))
             key == SkillKey(name, domain, standardCode)
             found == SeenGet(acc.seen, key)
         IN IF ~Truthy(found)
            THEN LET keep == IsString(Get(sk, "id"))
                     k1 == IF keep THEN acc.k ELSE acc.k + 1
                     skillId == IF keep THEN Get(sk, "id") ELSE Str(uid(k1))
                 IN [lifted |-> Append(acc.lifted,
                                    Obj([id |-> skillId, name |-> name,
                                         domain |-> domain,
                                         standardCode |-> standardCode,
                                         classIds |-> Arr(<<clId>>)])),
                     seen |-> (key :> skillId.s) @@ acc.seen,
                     k |-> k1]
            ELSE LET SameId(s) == StrictEq(Get(s, "id"), found)
                     at == FirstIndex(acc.lifted, SameId)
                 IN IF at # 0 /\ ~Includes(Get(acc.lifted[at], "classIds").a, clId)
                    THEN [acc EXCEPT !.lifted[at] =
                            Set(@, "classIds",
                                Arr(Append(Get(@, "classIds").a, clId)))]
                    ELSE acc

RECURSIVE LiftSkills(_, _, _)
LiftSkills(sks, clId, acc0) ==
    Bind(acc0, LAMBDA acc :
        IF sks = <<>> THEN acc
        ELSE LiftSkills(Tail(sks), clId, LiftOne(Head(sks), clId, acc)))

\* The body of st.classes.forEach from class i on; acc is
\* [classes, lifted, seen, k, thrown]. Reading cl.skills of a null throws.
RECURSIVE LiftClasses(_, _)
LiftClasses(i, acc0) ==
    Bind(acc0, LAMBDA acc :
        IF i > Len(acc.classes) THEN acc
        ELSE LET cl == acc.classes[i]
             IN IF cl.t \in {"null", "undefined"} THEN [acc EXCEPT !.thrown = TRUE]
                ELSE LET clSkills == IF IsArray(Get(cl, "skills")) THEN Get(cl, "skills").a
                                     ELSE <<>>
                     IN Bind(LiftSkills(clSkills, Get(cl, "id"),
                                        [lifted |-> acc.lifted, seen |-> acc.seen,
                                         k |-> acc.k]),
                             LAMBDA l :
                                LiftClasses(i + 1,
                                    [classes |-> IF IsObjectLike(cl)
                                                 THEN [acc.classes EXCEPT
                                                        ![i] = Set(cl, "skills", Arr(<<>>))]
                                                 ELSE acc.classes,
                                     lifted |-> l.lifted, seen |-> l.seen, k |-> l.k,
                                     thrown |-> FALSE])))

\* Math.max(1, Math.min(24, n)) on numerators, and the rows and cols of a
\* class that declares no finite number
MinDim == 1
MaxDim == 24
FallbackRows == 4
FallbackCols == 6
Clamp(n) == Max(MinDim * Den, Min(MaxDim * Den, n))

\* The number of passes of for (i = 0; i < rows * cols; i++)
SeatCount(rows, cols) == (rows * cols + Den * Den - 1) \div (Den * Den)

\* The seat pushed in pass i (from 0) of the seat loop
NormSeat(seats, i, rows, cols) ==
    LET r == Whole((i * Den) \div cols)
        c == Num((i * Den) % cols)
        Here(s) == Truthy(s) /\ StrictEq(Get(s, "r"), r) /\ StrictEq(Get(s, "c"), c)
        at == FirstIndex(seats, Here)
        seat == IF at # 0 THEN seats[at]
                ELSE Obj([r |-> r, c |-> c, studentId |-> Null])
        sid == Get(seat, "studentId")
    IN IF ~IsString(sid)
       THEN Set(seat, "studentId", IF Truthy(sid) THEN sid ELSE Null)
       ELSE seat

\* s && typeof s === "object" && typeof s.id === "string"
IsStudent(s) == IsObjectLike(s) /\ IsString(Get(s, "id"))

\* The callback of st.classes.map for a class cl that is not null, after k draws
NormClass(cl, k) ==
    LET rows == IF IsFinite(Get(cl, "rows")) THEN Clamp(Get(cl, "rows").n)
                ELSE FallbackRows * Den
        cols == IF IsFinite(Get(cl, "cols")) THEN Clamp(Get(cl, "cols").n)
                ELSE FallbackCols * Den
        seats == IF IsArray(Get(cl, "seats")) THEN Get(cl, "seats").a ELSE <<>>
        students == IF IsArray(Get(cl, "students")) THEN Get(cl, "students").a ELSE <<>>
        marks == IF IsObjectLike(Get(cl, "marks")) THEN Get(cl, "marks") ELSE Obj(NoProps)
        layoutMode == IF StrictEq(Get(cl, "layoutMode"), Str("free")) THEN Str("free")
                      ELSE Str("grid")
        normSeats == [j \in 1..SeatCount(rows, cols) |-> NormSeat(seats, j - 1, rows, cols)]
        keep == IsString(Get(cl, "id"))
        k1 == IF keep THEN k ELSE k + 1
    IN [v |-> Obj([id |-> IF keep THEN Get(cl, "id") ELSE Str(uid(k1)),
                   name |-> IF IsString(Get(cl, "name")) THEN Get(cl, "name")
                            ELSE Str("Class"),
                   rows |-> Num(rows), cols |-> Num(cols),
                   seats |-> Arr(normSeats),
                   students |-> Arr(SelectSeq(students, IsStudent)),
                   marks |-> marks,
                   layoutMode |-> layoutMode]),
        k |-> k1]

\* st.classes.map(...): [v, k, thrown]; reading cl.rows of a null throws
RECURSIVE NormClasses(_, _)
NormClasses(cls, k) ==
    IF cls = <<>> THEN [v |-> <<>>, k |-> k, thrown |-> FALSE]
    ELSE IF Head(cls).t \in {"null", "undefined"} THEN [v |-> <<>>, k |-> k, thrown |-> TRUE]
    ELSE Bind(NormClass(Head(cls), k), LAMBDA c :
            Bind(NormClasses(Tail(cls), c.k), LAMBDA rest :
                [v |-> <<c.v>> \o rest.v, k |-> rest.k, thrown |-> rest.thrown]))

\* Lines 77-121: parse, ensure the classes array, build the skill registry.
\* The result is [st, k, thrown]: the working value, the draws of uid() so far,
\* and whether an exception left the try block here.
MigrateSkills(text, k) ==
    IF ~text.ok THEN [st |-> Undef, k |-> k, thrown |-> TRUE]
    ELSE
    LET parsed == JSON_parse(text)
        st0 == IF IsObjectLike(parsed) THEN parsed ELSE DEFAULT_STATE(k)
        k0 == IF IsObjectLike(parsed) THEN k ELSE k + DefaultDraws
        hasClasses == IsArray(Get(st0, "classes"))
        k1 == IF hasClasses THEN k0 ELSE k0 + DefaultDraws
    IN Bind(IF hasClasses THEN st0
            ELSE Set(st0, "classes", Get(DEFAULT_STATE(k0), "classes")),
            LAMBDA st1 :
       IF IsArray(Get(st1, "skills"))
       THEN Bind(SanitizeSkills(Get(st1, "skills").a, k1), LAMBDA s :
                [st |-> Set(st1, "skills", Arr(s.v)), k |-> s.k, thrown |-> FALSE])
       ELSE Bind(LiftClasses(1, [classes |-> Get(st1, "classes").a, lifted |-> <<>>,
                                 seen |-> NoProps, k |-> k1, thrown |-> FALSE]),
                 LAMBDA l :
                    LET st2 == Set(st1, "classes", Arr(l.classes))
                    IN IF l.thrown THEN [st |-> st2, k |-> l.k, thrown |-> TRUE]
                       ELSE IF l.lifted # <<>>
                       THEN [st |-> Set(st2, "skills", Arr(l.lifted)), k |-> l.k,
                             thrown |-> FALSE]
                       ELSE [st |-> Set(st2, "skills", Get(DEFAULT_STATE(l.k), "skills")),
                             k |-> l.k + DefaultDraws, thrown |-> FALSE]))

\* Lines 123-153: normalize each class
MigrateClasses(run0) ==
    Bind(run0, LAMBDA run :
        IF run.thrown THEN run
        ELSE Bind(NormClasses(Get(run.st, "classes").a, run.k), LAMBDA n :
                IF n.thrown THEN [st |-> run.st, k |-> n.k, thrown |-> TRUE]
                ELSE [st |-> Set(run.st, "classes", Arr(n.v)), k |-> n.k,
                      thrown |-> FALSE]))

\* Lines 155-158: ensure selected class; [v, k]
EnsureSelectedClass(st, k) ==
    LET sel == Get(st, "selectedClassId")
        classes == Get(st, "classes").a
        first == IF classes # <<>> THEN Get(classes[1], "id") ELSE Undef
    IN IF ~Truthy(sel) \/ ~\E j \in 1..Len(classes) : StrictEq(Get(classes[j], "id"), sel)
       THEN IF Truthy(first)
            THEN [v |-> Set(st, "selectedClassId", first), k |-> k]
            ELSE [v |-> Set(st, "selectedClassId",
                            Get(Get(DEFAULT_STATE(k), "classes").a[1], "id")),
                  k |-> k + DefaultDraws]
       ELSE [v |-> st, k |-> k]

\* Lines 160-164: ensure selected skill
EnsureSelectedSkill(st) ==
    LET sel == Get(st, "selectedSkillId")
        skills == Get(st, "skills").a
        Linked(s) == /\ IsArray(Get(s, "classIds"))
                     /\ Includes(Get(s, "classIds").a, Get(st, "selectedClassId"))
        classSkills == SelectSeq(skills, Linked)
        a == IF classSkills # <<>> THEN Get(classSkills[1], "id") ELSE Undef
        b == IF skills # <<>> THEN Get(skills[1], "id") ELSE Undef
    IN IF ~Truthy(sel) \/ ~\E j \in 1..Len(skills) : StrictEq(Get(skills[j], "id"), sel)
       THEN Set(st, "selectedSkillId",
                IF Truthy(a) THEN a ELSE IF Truthy(b) THEN b ELSE Null)
       ELSE st

\* A catch block that hands back the working value as the exception left it
CaughtPartial(run) == [v |-> run.st, k |-> run.k]

\* The catch block: whatever the try block was doing, a fresh default state
Caught(run) == [v |-> DEFAULT_STATE(run.k), k |-> run.k + DefaultDraws]

\* migrateLegacy(raw) after k draws of uid(): [v |-> the state returned, k]
migrateLegacy(text, k) ==
    Bind(MigrateClasses(MigrateSkills(text, k)), LAMBDA run :
        IF run.thrown THEN Caught(run)
        ELSE Bind(EnsureSelectedClass(run.st, run.k), LAMBDA c :
                [v |-> EnsureSelectedSkill(c.v), k |-> c.k]))

(* Persistence *)

\* The value JSON.stringify writes for x: properties holding undefined are
\* left out, undefined array elements become null, named properties of an
\* array are dropped
RECURSIVE Jsonify(_)
Jsonify(x) ==
    CASE x.t = "object" ->
            Obj([k \in {k \in DOMAIN x.o : x.o[k].t # "undefined"} |-> Jsonify(x.o[k])])
      [] x.t = "array" ->
            Arr([i \in 1..Len(x.a) |->
                    IF x.a[i].t = "undefined" THEN Null ELSE Jsonify(x.a[i])])
      [] x.t = "number" /\ "nan" \in DOMAIN x -> Null
      [] OTHER -> x

JSON_stringify(x) == [ok |-> TRUE, doc |-> Jsonify(x)]

\* localStorage.getItem found nothing
NoItem == [ok |-> FALSE, doc |-> Null]

\* localStorage.getItem throws
ReadFails == [ok |-> FALSE, doc |-> Str("getItem throws")]

\* a loadState whose handler gives a state without classes and skills
loadStateUnguarded(item, k) ==
    IF item = ReadFails
    THEN [v |-> Obj([classes |-> Arr(<<>>), skills |-> Arr(<<>>),
                     selectedClassId |-> Null, selectedSkillId |-> Null]), k |-> k]
    ELSE IF item = NoItem THEN [v |-> DEFAULT_STATE(k), k |-> k + DefaultDraws]
    ELSE migrateLegacy(item, k)

\* loadState() when the store holds item: [v |-> state, k |-> draws of uid()]
loadState(item, k) ==
    IF item = ReadFails \/ item = NoItem
    THEN [v |-> DEFAULT_STATE(k), k |-> k + DefaultDraws]
    ELSE migrateLegacy(item, k)

----------------------------------------------------------------------------
(* The App component *)

\* state.classes.find((c) => c.id === state.selectedClassId), 0 if none
currentClassIndex(st) ==
    LET Selected(c) == StrictEq(Get(c, "id"), Get(st, "selectedClassId"))
    IN FirstIndex(Get(st, "classes").a, Selected)

classSkills(st) ==
    LET Linked(sk) == Includes(Get(sk, "classIds").a, Get(st, "selectedClassId"))
    IN SelectSeq(Get(st, "skills").a, Linked)

\* classSkills.find((s) => s.id === state.selectedSkillId) || classSkills[0] || null
selectedSkill(st) ==
    LET Chosen(sk) == StrictEq(Get(sk, "id"), Get(st, "selectedSkillId"))
        at == FirstIndex(classSkills(st), Chosen)
    IN IF at # 0 THEN classSkills(st)[at]
       ELSE IF classSkills(st) # <<>> THEN classSkills(st)[1]
       ELSE Null

\* cls.marks[skillId]?.[studentId]
MarkOf(cls, skillId, studentId) ==
    LET row == Get(Get(cls, "marks"), skillId)
    IN IF row.t \in {"null", "undefined"} THEN Undef ELSE Get(row, studentId)

\* The levels, and (cur + 1) % 5 on numerators
Levels == 5
\* a cycle that climbs without wrapping
NewLevelNoWrap(cur) == Num(cur.n + Den)
NewLevel(cur) == Num(JsRem(cur.n + Den, Levels * Den))

\* a cycle that starts the skill's row afresh
cycleSeatLevelFreshRow(prev, skillId, studentId) ==
    LET idx == currentClassIndex(prev)
    IN IF idx = 0 THEN prev
       ELSE
       LET cls == Get(prev, "classes").a[idx]
           stored == MarkOf(cls, skillId, studentId)
           cur == IF stored.t \in {"null", "undefined"} THEN Whole(0) ELSE stored
           marks == Set(Get(cls, "marks"), skillId,
                        Set(Obj(NoProps), studentId, NewLevel(cur)))
       IN Set(prev, "classes",
              [Get(prev, "classes") EXCEPT !.a[idx] = Set(cls, "marks", marks)])

\* The updater of cycleSeatLevel(studentId) for the selected skill skillId
cycleSeatLevel(prev, skillId, studentId) ==
    LET idx == currentClassIndex(prev)
    IN IF idx = 0 THEN prev
       ELSE
       LET cls == Get(prev, "classes").a[idx]
           stored == MarkOf(cls, skillId, studentId)
           cur == IF stored.t \in {"null", "undefined"} THEN Whole(0) ELSE stored
           row == IF Truthy(Get(Get(cls, "marks"), skillId))
                  THEN Get(Get(cls, "marks"), skillId) ELSE Obj(NoProps)
           marks == Set(Get(cls, "marks"), skillId, Set(row, studentId, NewLevel(cur)))
       IN Set(prev, "classes",
              [Get(prev, "classes") EXCEPT !.a[idx] = Set(cls, "marks", marks)])

\* What the object prev holds once the updater of cycleSeatLevel has run:
\* next = { ...prev } copies the top level only, so next.classes is the array
\* of prev and cls an element of it, and the writes to cls.marks land in the
\* marks table prev refers to
cycleSeatLevelHeld(prev, skillId, studentId) ==
    LET idx == currentClassIndex(prev)
    IN IF idx = 0 THEN prev
       ELSE Set(prev, "classes", Get(cycleSeatLevel(prev, skillId, studentId), "classes"))

\* What the object prev holds once an updater that returned next has run,
\* for the updaters that write next.classes[idx] after next = { ...prev }:
\* the classes array is the one of prev
HeldAfter(prev, next) ==
    IF IsObjectLike(prev) /\ IsObjectLike(next)
    THEN Set(prev, "classes", Get(next, "classes")) ELSE prev

\* Numbers that are no multiple of 1/Den: p/q in lowest terms, and NaN
RECURSIVE Gcd(_, _)
Gcd(a, b) == IF b = 0 THEN a ELSE Gcd(b, a % b)
Abs(i) == IF i < 0 THEN -i ELSE i
NotANumber == [t |-> "number", nan |-> TRUE]
IsNaN(x) == x.t = "number" /\ "nan" \in DOMAIN x
Rat(p, q) ==
    IF (p * Den) % q = 0 THEN Num((p * Den) \div q)
    ELSE [t |-> "number", p |-> p \div Gcd(Abs(p), q), q |-> q \div Gcd(Abs(p), q)]
Numer(x) == IF "n" \in DOMAIN x THEN x.n ELSE x.p
Denom(x) == IF "n" \in DOMAIN x THEN Den ELSE x.q
Less(a, b) == Numer(a) * Denom(b) < Numer(b) * Denom(a)

\* (a + 1/2) / b, as in (s.c + 0.5) / cls.cols
CellCenter(a, b) ==
    IF ~IsNumber(a) \/ ~IsNumber(b) \/ IsNaN(a) \/ IsNaN(b) THEN NotANumber
    ELSE IF Numer(b) = 0 THEN NotANumber
    ELSE IF Numer(b) > 0
    THEN Rat((2 * Numer(a) + Denom(a)) * Denom(b), 2 * Denom(a) * Numer(b))
    ELSE Rat(-((2 * Numer(a) + Denom(a)) * Denom(b)), 2 * Denom(a) * (-Numer(b)))

\* seats.find((s) => s.r === pos.r && s.c === pos.c) as an index, 0 if none
SeatAt(seats, pos) ==
    LET Here(s) == /\ StrictEq(Get(s, "r"), Get(pos, "r"))
                   /\ StrictEq(Get(s, "c"), Get(pos, "c"))
    IN FirstIndex(seats, Here)

\* a swap that copies the occupant of b to a and leaves b as it was
swapSeatsCopy(prev, a, b) ==
    LET idx == currentClassIndex(prev)
    IN IF idx = 0 THEN prev
       ELSE
       LET cls == Get(prev, "classes").a[idx]
           seats == Get(cls, "seats").a
           sa == SeatAt(seats, a)
           sb == SeatAt(seats, b)
       IN IF sa = 0 \/ sb = 0 THEN prev
          ELSE Set(prev, "classes",
                   [Get(prev, "classes") EXCEPT !.a[idx] =
                        Set(cls, "seats",
                            Arr([seats EXCEPT
                                    ![sa] = Set(@, "studentId", Get(seats[sb], "studentId"))]))])

\* The updater of swapSeats(a, b)
swapSeats(prev, a, b) ==
    LET idx == currentClassIndex(prev)
    IN IF idx = 0 THEN prev
       ELSE
       LET cls == Get(prev, "classes").a[idx]
           seats == Get(cls, "seats").a
           sa == SeatAt(seats, a)
           sb == SeatAt(seats, b)
       IN IF sa = 0 \/ sb = 0 THEN prev
          ELSE Set(prev, "classes",
                   [Get(prev, "classes") EXCEPT !.a[idx] =
                        Set(cls, "seats",
                            Arr([j \in 1..Len(seats) |->
                                    IF j = sa /\ j # sb
                                    THEN Set(seats[j], "studentId", Get(seats[sb], "studentId"))
                                    ELSE IF j = sb /\ j # sa
                                    THEN Set(seats[j], "studentId", Get(seats[sa], "studentId"))
                                    ELSE IF j = sa
                                    THEN Set(seats[j], "studentId", Get(seats[j], "studentId"))
                                    ELSE seats[j]]))])

\* an ensureXYForAll that places every seat anew
ensureXYForAllAnew(p) ==
    LET idx == currentClassIndex(p)
    IN IF idx = 0 THEN p
       ELSE
       LET cls == Get(p, "classes").a[idx]
           seats == Get(cls, "seats").a
           Placed(s) == Set(Set(s, "x", CellCenter(Get(s, "c"), Get(cls, "cols"))),
                            "y", CellCenter(Get(s, "r"), Get(cls, "rows")))
       IN Set(p, "classes",
              [Get(p, "classes") EXCEPT !.a[idx] =
                    Set(cls, "seats", Arr([j \in 1..Len(seats) |-> Placed(seats[j])]))])

\* The updater of ensureXYForAll()
ensureXYForAll(p) ==
    LET idx == currentClassIndex(p)
    IN IF idx = 0 THEN p
       ELSE
       LET cls == Get(p, "classes").a[idx]
           seats == Get(cls, "seats").a
           HasXY(s) == IsNumber(Get(s, "x")) /\ IsNumber(Get(s, "y"))
           Placed(s) ==
                IF HasXY(s) THEN s
                ELSE Set(Set(s, "x", CellCenter(Get(s, "c"), Get(cls, "cols"))),
                         "y", CellCenter(Get(s, "r"), Get(cls, "rows")))
           changed == \E j \in 1..Len(seats) : ~HasXY(seats[j])
       IN IF ~changed THEN p
          ELSE Set(p, "classes",
                   [Get(p, "classes") EXCEPT !.a[idx] =
                        Set(cls, "seats", Arr([j \in 1..Len(seats) |-> Placed(seats[j])]))])

\* The two updaters setLayoutMode(mode) queues: the mode, then the coordinates
setLayoutMode(p, mode) ==
    LET idx == currentClassIndex(p)
        moded == IF idx = 0 THEN p
                 ELSE Set(p, "classes",
                          [Get(p, "classes") EXCEPT !.a[idx] = Set(@, "layoutMode", Str(mode))])
    IN IF mode = "free" THEN ensureXYForAll(moded) ELSE moded

\* The desk positions a pointer move may store: clamped to [0.02, 0.98]
Lowest == Rat(2, 100)
Highest == Rat(98, 100)
ClampSpot(x) == IF Less(x, Lowest) THEN Lowest ELSE IF Less(Highest, x) THEN Highest ELSE x

\* a pointer move that stores the pointer's position as it is
pointerMoveUnclamped(p, dragged, x, y) ==
    LET idx == currentClassIndex(p)
    IN IF idx = 0 THEN p
       ELSE
       LET cls == Get(p, "classes").a[idx]
           seats == Get(cls, "seats").a
           Moved(s) == IF /\ StrictEq(Get(s, "r"), Get(dragged, "r"))
                          /\ StrictEq(Get(s, "c"), Get(dragged, "c"))
                       THEN Set(Set(s, "x", x), "y", y) ELSE s
       IN Set(p, "classes",
              [Get(p, "classes") EXCEPT !.a[idx] =
                    Set(cls, "seats", Arr([j \in 1..Len(seats) |-> Moved(seats[j])]))])

\* The updater of onPointerMoveBoard for the desk picked up, pointer at (x, y)
pointerMove(p, dragged, x, y) ==
    LET idx == currentClassIndex(p)
    IN IF idx = 0 THEN p
       ELSE
       LET cls == Get(p, "classes").a[idx]
           seats == Get(cls, "seats").a
           Moved(s) == IF /\ StrictEq(Get(s, "r"), Get(dragged, "r"))
                          /\ StrictEq(Get(s, "c"), Get(dragged, "c"))
                       THEN Set(Set(s, "x", ClampSpot(x)), "y", ClampSpot(y)) ELSE s
       IN Set(p, "classes",
              [Get(p, "classes") EXCEPT !.a[idx] =
                    Set(cls, "seats", Arr([j \in 1..Len(seats) |-> Moved(seats[j])]))])

\* parseInt(text) for a text of an optional sign and decimal digits followed
\* by anything: the leading integer, NaN when there is no digit
Digits == "0123456789"
IsDigit(ch) == \E d \in 0..9 : SubSeq(Digits, d + 1, d + 1) = ch
DigitOf(ch) == CHOOSE d \in 0..9 : SubSeq(Digits, d + 1, d + 1) = ch
RECURSIVE LeadingInt(_, _, _)
LeadingInt(text, at, sofar) ==
    IF at > Len(text) \/ ~IsDigit(SubSeq(text, at, at)) THEN sofar
    ELSE LeadingInt(text, at + 1, 10 * sofar + DigitOf(SubSeq(text, at, at)))
parseInt(text) ==
    LET signed == Len(text) > 0 /\ SubSeq(text, 1, 1) \in {"-", "+"}
        from == IF signed THEN 2 ELSE 1
        sign == IF signed /\ SubSeq(text, 1, 1) = "-" THEN -1 ELSE 1
    IN IF from > Len(text) \/ ~IsDigit(SubSeq(text, from, from)) THEN NotANumber
       ELSE Whole(sign * LeadingInt(text, from, 0))

\* onChange of a ResizeLayout input: parseInt(e.target.value || "1")
SizeTyped(text) == parseInt(IF text = "" THEN "1" ELSE text)

\* The passes of for (let r = 0; r < n; r++)
Passes(n) ==
    IF ~IsNumber(n) \/ IsNaN(n) \/ Numer(n) <= 0 THEN 0
    ELSE (Numer(n) + Denom(n) - 1) \div Denom(n)

\* The updater of applySize() with rows = rws and cols = cls typed
applySize(p, rws, cls) ==
    LET idx == currentClassIndex(p)
    IN IF idx = 0 THEN p
       ELSE
       LET cl == Get(p, "classes").a[idx]
           old == Get(cl, "seats").a
           C == Passes(cls)
           Cell(j) == Obj([r |-> Whole((j - 1) \div C), c |-> Whole((j - 1) % C)])
           Seat(j) == IF SeatAt(old, Cell(j)) # 0 THEN old[SeatAt(old, Cell(j))]
                      ELSE Set(Cell(j), "studentId", Null)
           seats == [j \in 1..(Passes(rws) * C) |-> Seat(j)]
       IN Set(p, "classes",
              [Get(p, "classes") EXCEPT !.a[idx] =
                    Set(Set(Set(cl, "rows", rws), "cols", cls), "seats", Arr(seats))])

\* reader.onload of importJSON: setState(migrateLegacy(String(reader.result)))
importJSONKept(prev, text, k) ==
    IF text.ok THEN migrateLegacy(text, k) ELSE [v |-> prev, k |-> k]
importJSON(prev, text, k) == migrateLegacy(text, k)

\* saveState(st) on a store holding item: the text written, or item as it
\* was when setItem throws
saveState(st, item, accepted) == IF accepted THEN JSON_stringify(st) ELSE item

\* The guard effect of lines 206-210, run after a render of st
guardEffect(st) ==
    IF ~IsObjectLike(st) THEN st
    ELSE IF ~Truthy(selectedSkill(st)) /\ classSkills(st) # <<>>
    THEN Set(st, "selectedSkillId", Get(classSkills(st)[1], "id"))
    ELSE st

\* The updaters of setClass(id) and setSkill(id)
setClass(p, id) == Set(p, "selectedClassId", id)
setSkill(p, id) == Set(p, "selectedSkillId", id)

\* The seats addClass builds: rows x cols empty seats in row-major order
EmptySeats(rows, cols) ==
    [j \in 1..(rows * cols) |->
        Obj([r |-> Whole((j - 1) \div cols), c |-> Whole((j - 1) % cols),
             studentId |-> Null])]

\* The updater of addClass() for the name typed, after k draws of uid()
addClass(p, name, k) ==
    Set(Set(p, "classes",
            [Get(p, "classes") EXCEPT !.a = Append(@,
                Obj([id |-> Str(uid(k + 1)), name |-> Str(name),
                     rows |-> Whole(FallbackRows), cols |-> Whole(FallbackCols),
                     seats |-> Arr(EmptySeats(FallbackRows, FallbackCols)),
                     students |-> Arr(<<>>), marks |-> Obj(NoProps),
                     layoutMode |-> Str("grid")]))]),
        "selectedClassId", Str(uid(k + 1)))

\* The updater of addSkill() for the three texts typed
addSkill(p, name, domain, standardCode, k) ==
    Set(p, "skills",
        [Get(p, "skills") EXCEPT !.a = Append(@,
            Obj([id |-> Str(uid(k + 1)), name |-> Str(name),
                 domain |-> IF domain = "" THEN Undef ELSE Str(domain),
                 standardCode |-> cleanStandard(Str(standardCode)),
                 classIds |-> Arr(<<Get(p, "selectedClassId")>>)]))])

\* s.trim() for blanks
RECURSIVE Trim(_)
Trim(s) ==
    IF Len(s) > 0 /\ SubSeq(s, 1, 1) = " " THEN Trim(SubSeq(s, 2, Len(s)))
    ELSE IF Len(s) > 0 /\ SubSeq(s, Len(s), Len(s)) = " " THEN Trim(SubSeq(s, 1, Len(s) - 1))
    ELSE s

\* text.split(","), from position from on
RECURSIVE Split(_, _)
Split(text, from) ==
    LET stops == {i \in from..Len(text) : SubSeq(text, i, i) = ","}
    IN IF stops = {} THEN <<SubSeq(text, from, Len(text))>>
       ELSE LET i == CHOOSE i \in stops : \A m \in stops : i <= m
            IN <<SubSeq(text, from, i - 1)>> \o Split(text, i + 1)

\* Array.from(new Set(ids))
RECURSIVE Unique(_)
Unique(ids) ==
    IF ids = <<>> THEN <<>>
    ELSE LET rest == Unique(SubSeq(ids, 1, Len(ids) - 1))
             x == ids[Len(ids)]
         IN IF \E j \in 1..Len(rest) : rest[j] = x THEN rest ELSE Append(rest, x)

\* The ids linkSkillToClasses finds for the names typed
WantedIds(st, names) ==
    LET parts == Split(names, 1)
        wanted == {Trim(parts[j]) : j \in 1..Len(parts)} \ {""}
        Named(cl) == IsString(Get(cl, "name")) /\ Get(cl, "name").s \in wanted
        found == SelectSeq(Get(st, "classes").a, Named)
    IN [j \in 1..Len(found) |-> Get(found[j], "id")]

\* linkSkillToClasses() for the names typed: the state after its update
linkSkillToClasses(st, names) ==
    LET sel == selectedSkill(st)
        ids == WantedIds(st, names)
        skills == Get(st, "skills").a
    IN IF ~Truthy(sel) \/ ids = <<>> THEN st
       ELSE Set(st, "skills",
                [Get(st, "skills") EXCEPT !.a =
                    [j \in 1..Len(skills) |->
                        IF StrictEq(Get(skills[j], "id"), Get(sel, "id"))
                        THEN Set(skills[j], "classIds", Arr(Unique(ids)))
                        ELSE skills[j]]])

\* The updater of assignSeat(studentId) with the modal opened on assignPos
assignSeat(p, assignPos, studentId) ==
    LET idx == currentClassIndex(p)
    IN IF idx = 0 THEN p
       ELSE
       LET cls == Get(p, "classes").a[idx]
           seats == Get(cls, "seats").a
           Taken(seat) == IF /\ Truthy(assignPos)
                            /\ StrictEq(Get(seat, "r"), Get(assignPos, "r"))
                            /\ StrictEq(Get(seat, "c"), Get(assignPos, "c"))
                         THEN Set(seat, "studentId", studentId) ELSE seat
       IN Set(p, "classes",
              [Get(p, "classes") EXCEPT !.a[idx] =
                    Set(cls, "seats", Arr([j \in 1..Len(seats) |-> Taken(seats[j])]))])

\* a modal whose buttons are all enabled
AssignChoicesAll(st) ==
    LET cls == Get(st, "classes").a[currentClassIndex(st)]
        students == Get(cls, "students").a
    IN [j \in 1..Len(students) |-> Get(students[j], "id")]

\* The students whose button in the assign modal is enabled: those not in
\* assignedIds, the truthy studentIds of the selected class's seats
\* (in roster order; the modal lists them sorted by name, and the order only
\* decides which of them MaxOffers reaches)
AssignChoices(st) ==
    LET cls == Get(st, "classes").a[currentClassIndex(st)]
        seats == Get(cls, "seats").a
        held == {Get(seats[j], "studentId") : j \in 1..Len(seats)}
        assignedIds == {id \in held : Truthy(id)}
        Free(stu) == Get(stu, "id") \notin assignedIds
        free == SelectSeq(Get(cls, "students").a, Free)
    IN [j \in 1..Len(free) |-> Get(free[j], "id")]

\* The updater of addStudent() for the name typed, after k draws of uid()
addStudent(p, name, k) ==
    LET idx == currentClassIndex(p)
    IN IF idx = 0 THEN p
       ELSE Set(p, "classes",
                [Get(p, "classes") EXCEPT !.a[idx] =
                    Set(@, "students",
                        [Get(@, "students") EXCEPT !.a =
                            Append(@, Obj([id |-> Str(uid(k + 1)), name |-> Str(Trim(name))]))])])

\* The skill clearMarks finds: state.skills.find((s) => s.id === state.selectedSkillId)
StoredSkill(st) ==
    LET Chosen(sk) == StrictEq(Get(sk, "id"), Get(st, "selectedSkillId"))
        at == FirstIndex(Get(st, "skills").a, Chosen)
    IN IF at = 0 THEN Undef ELSE Get(st, "skills").a[at]

\* clearMarks() once confirmed: the state after its update
clearMarks(st) ==
    LET idx == currentClassIndex(st)
        stSk == StoredSkill(st)
    IN IF ~Truthy(stSk) \/ idx = 0 THEN st
       ELSE Set(st, "classes",
                [Get(st, "classes") EXCEPT !.a[idx] =
                    Set(@, "marks", Set(Get(@, "marks"), JsToString(Get(stSk, "id")), Obj(NoProps)))])

----------------------------------------------------------------------------
----------------------------------------------------------------------------
(* cleanStandard applied to values of every type and to strings built from *)
(* up to MaxPieces pieces, among them the prefix itself and near misses.   *)
MaxPieces == 3

Pieces == <<"NC.7.", "NC.7", "RP.2", "nc.7.", "NCx7.", ".">>

RECURSIVE Texts(_)
Texts(n) ==
    IF n = 0 THEN {""}
    ELSE LET shorter == Texts(n - 1)
         IN shorter \cup {s \o Pieces[i] : s \in shorter, i \in 1..Len(Pieces)}

CodeInputs ==
    {Str(s) : s \in Texts(MaxPieces)}
        \cup {Undef, Null, Bool(TRUE), Whole(3), Whole(0),
              Arr(<<Str("NC.7.RP.2")>>), Obj([code |-> Str("NC.7.RP.2")])}

(* migrateLegacy applied to texts that are not JSON, to JSON scalars and   *)
(* arrays, and to documents in the current shape (a skills list) and in    *)
(* the legacy shape (skills nested per class).                             *)
MaxClasses == 2
MaxSkills == 2

Json(doc) == [ok |-> TRUE, doc |-> doc]
Garbage == [ok |-> FALSE, doc |-> Undef]

\* o with property k set to x, or without it when x is undefined
With(o, k, x) == IF x.t = "undefined" THEN o ELSE Set(o, k, x)

SeqsUpTo(S, n) == UNION {[1..m -> S] : m \in 0..n}

ScalarTexts ==
    {Garbage} \cup {Json(d) : d \in {Null, Whole(5), Str("x"), Bool(TRUE), Bool(FALSE),
                                    Arr(<<>>), Arr(<<Whole(1)>>), Obj(NoProps)}}

\* One class "A" declaring rows and cols of every kind, with or without seats
DimValues ==
    {Undef, Null, Str("3"), Whole(-1), Whole(0), Whole(1), Num(Den + 1), Whole(2),
     Num(2 * Den + 1), Whole(25)}

SomeSeats ==
    Arr(<< Obj([r |-> Whole(0), c |-> Whole(0), studentId |-> Str("s1"),
                x |-> Num(1), y |-> Num(1)]),
           Null,
           Str("seat"),
           Obj([r |-> Whole(0), c |-> Whole(0), studentId |-> Str("s2")]),
           Obj([r |-> Whole(0), c |-> Whole(1), studentId |-> Whole(7)]),
           Obj([r |-> Whole(1), c |-> Whole(0), studentId |-> Whole(0)]),
           Obj([r |-> Whole(1), c |-> Whole(1)]),
           Obj([r |-> Whole(30), c |-> Whole(0), studentId |-> Str("s3")]) >>)

DimTexts ==
    {Json(Obj([classes |-> Arr(<<
        With(With(With(Obj([id |-> Str("A")]), "rows", rows), "cols", cols),
             "seats", seats) >>)])) :
        rows \in DimValues, cols \in DimValues, seats \in {Undef, SomeSeats}}

\* The legacy shape: up to MaxClasses classes, each nesting skills
NestedSkills ==
    {Obj([name |-> Str("Y")]),
     Obj([id |-> Str(""), name |-> Str("Y")]),
     Obj([id |-> Str("k1"), name |-> Str("X"), standardCode |-> Str("NC.7.RP.2")]),
     Obj([name |-> Str("X"), standardCode |-> Str("RP.2")])}

NestedLists ==
    {Undef, Arr(<<Null>>)} \cup {Arr(<<n>>) : n \in NestedSkills}
        \cup {Arr(<<Obj([id |-> Str("k1"), name |-> Str("X")]),
                    Obj([id |-> Str("k1"), name |-> Str("X")]),
                    Obj([id |-> Str("k1"), name |-> Str("Y")])>>)}

ClassIdValues == {Undef, Str("A"), Str("B")}

LegacyClasses ==
    {Null, Whole(5)} \cup
    {With(With(Obj([rows |-> Whole(1), cols |-> Whole(1)]), "id", id), "skills", l) :
        id \in ClassIdValues, l \in NestedLists}

LegacyTexts(n) ==
    {Json(Obj([classes |-> Arr(cls), selectedClassId |-> Str("B")])) :
        cls \in SeqsUpTo(LegacyClasses, n)}

\* The current shape: a skills list of up to MaxSkills entries
SkillEntries ==
    {Null,
     Obj([id |-> Whole(1), name |-> Whole(2), standardCode |-> Whole(3),
          classIds |-> Str("nope")]),
     Obj([id |-> Str("k1"), name |-> Str("X"), standardCode |-> Str("NC.7.RP.2"),
          classIds |-> Arr(<<Str("A")>>)]),
     Obj([id |-> Str("k2"), name |-> Str("Y"), domain |-> Str("Geometry"),
          standardCode |-> Str("NC.7.NC.7.G.1"),
          classIds |-> Arr(<<Null, Whole(0), Str(""), Str("B")>>)]),
     Obj([id |-> Str("k1"), name |-> Str("Z"), classIds |-> Arr(<<Str("B")>>)]),
     Obj([id |-> Str(""), name |-> Str("W"), classIds |-> Arr(<<Str("A"), Str("B")>>)])}

PlainClass(id) == With(Obj([rows |-> Whole(1), cols |-> Whole(2)]), "id", id)

ListedClasses ==
    {Undef, Str("none"), Arr(<<>>), Arr(<<Null>>), Arr(<<PlainClass(Str("A"))>>),
     Arr(<<PlainClass(Str("A")), PlainClass(Str("B"))>>),
     Arr(<<PlainClass(Str(""))>>), Arr(<<PlainClass(Str("A")), Null>>)}

\* selectedClassId and selectedSkillId of the input
Selections ==
    {<<Undef, Undef>>, <<Str("B"), Undef>>, <<Undef, Str("k1")>>, <<Str("B"), Str("k1")>>,
     <<Str("zz"), Str("k2")>>, <<Whole(5), Str("zz")>>}

ListedTexts(n) ==
    {Json(With(With(With(Obj([skills |-> Arr(sk)]), "classes", cls),
                    "selectedClassId", sel[1]), "selectedSkillId", sel[2])) :
        sk \in SeqsUpTo(SkillEntries, n), cls \in ListedClasses,
        sel \in Selections}

\* The legacy shape again: one class nesting two skills whose names, domains
\* and codes are empty or hold the separator of the dedup key
KeyEntries ==
    {Obj([name |-> Str("X")]),
     Obj([name |-> Str("X"), domain |-> Str("")]),
     Obj([name |-> Str("X|D")]),
     Obj([name |-> Str("X"), domain |-> Str("D|")]),
     Obj([name |-> Str("X"), domain |-> Str("D"), standardCode |-> Str("")])}

KeyTexts ==
    {Json(Obj([classes |-> Arr(<< Obj([id |-> Str("A"), rows |-> Whole(1), cols |-> Whole(1),
                                       skills |-> Arr(<<e1, e2>>)]) >>)])) :
        e1 \in KeyEntries, e2 \in KeyEntries}

\* The inputs with up to c nesting classes and up to k listed skills
RawInputs(c, k) ==
    ScalarTexts \cup DimTexts \cup LegacyTexts(c) \cup ListedTexts(k) \cup KeyTexts

(* The App started on a store that holds nothing or a saved document: a    *)
(* class "A" of two seated students with marks of every kind for student   *)
(* "s1", among them levels outside 0..4 that migrateLegacy lets through.   *)
ClickSeats == 2
MaxCycles == 5

MarkValues ==
    {Null, Whole(0), Whole(1), Whole(2), Whole(3), Whole(4), Whole(7), Whole(-1),
     Whole(-3), Num(Den + 1)}

\* A marks table with two students and two skills
FullMarks ==
    Obj([k1 |-> Obj([s1 |-> Whole(1), s2 |-> Whole(3)]), k2 |-> Obj([s1 |-> Whole(2)])])

MarkTables ==
    {Undef, Obj([k1 |-> Null]), Obj([k2 |-> Obj([s1 |-> Whole(3)])]), FullMarks}
        \cup {Obj([k1 |-> Obj([s1 |-> m])]) : m \in MarkValues}

\* The skills of a stored document: both linked to class "A", or one linked
\* to a class "B" only, which leaves class "A" without a skill
LinkedSkills ==
    Arr(<< Obj([id |-> Str("k1"), name |-> Str("X"), classIds |-> Arr(<<Str("A")>>)]),
           Obj([id |-> Str("k2"), name |-> Str("Y"), classIds |-> Arr(<<Str("A")>>)]) >>)

Unlinked ==
    Arr(<< Obj([id |-> Str("k1"), name |-> Str("X"), classIds |-> Arr(<<Str("B")>>)]) >>)

SavedSkillLists == {LinkedSkills, Unlinked}

PlainSeats ==
    Arr(<< Obj([r |-> Whole(0), c |-> Whole(0), studentId |-> Str("s1")]),
           Obj([r |-> Whole(0), c |-> Whole(1), studentId |-> Str("s2")]) >>)

SavedDocWith(marks, skills, seats, layoutMode) ==
    Obj([classes |-> Arr(<<
            With(Obj([id |-> Str("A"), name |-> Str("Period 1"),
                      rows |-> Whole(1), cols |-> Whole(2),
                      seats |-> seats,
                      students |-> Arr(<< Obj([id |-> Str("s1"), name |-> Str("Ann")]),
                                          Obj([id |-> Str("s2"), name |-> Str("Bo")]) >>),
                      layoutMode |-> Str(layoutMode)]),
                 "marks", marks) >>),
         skills |-> skills,
         selectedClassId |-> Str("A"),
         selectedSkillId |-> Str("k1")])

SavedDoc(marks, skills) == SavedDocWith(marks, skills, PlainSeats, "grid")

StoredItems ==
    {NoItem} \cup {Json(SavedDoc(m, sk)) : m \in MarkTables, sk \in SavedSkillLists}

NoStreak == [n |-> 0]

\* Stores for the seat operations: class "A" with one seat empty or none
SeatItems ==
    {Json(SavedDocWith(FullMarks, Unlinked, seats, "grid")) :
        seats \in {PlainSeats,
                   Arr(<< Obj([r |-> Whole(0), c |-> Whole(0), studentId |-> Null]),
                          Obj([r |-> Whole(0), c |-> Whole(1), studentId |-> Str("s2")]) >>)}}

\* The texts typed into the rows input and into the cols input
RowTexts == <<"", "25">>
ColTexts == <<"", "2", "0">>

\* The grid cells clicked: rows and columns 0..ClickSpan-1
ClickSpan == 2

\* Stores for the layout operations: seats with both coordinates, with one,
\* with none, in either layout mode
SeatsXY ==
    {PlainSeats,
     Arr(<< Obj([r |-> Whole(0), c |-> Whole(0), studentId |-> Str("s1"),
                 x |-> Num(1), y |-> Num(1)]),
            Obj([r |-> Whole(0), c |-> Whole(1), studentId |-> Null]) >>),
     Arr(<< Obj([r |-> Whole(0), c |-> Whole(0), studentId |-> Str("s1"), x |-> Num(1)]),
            Obj([r |-> Whole(0), c |-> Whole(1), studentId |-> Str("s2"),
                 x |-> Num(0), y |-> Num(2)]) >>)}

LayoutItems ==
    {Json(SavedDocWith(FullMarks, Unlinked, seats, mode)) :
        seats \in SeatsXY, mode \in {"grid", "free"}}
    \cup {Json(SavedDocWith(FullMarks, LinkedSkills,
                            Arr(<< Obj([r |-> Whole(0), c |-> Whole(0),
                                        studentId |-> Str("s1")]) >>), "free"))}

\* Where the pointer is moved to, as fractions of the board
DragSpots == {<<Rat(1, 2), Rat(1, 4)>>, <<Rat(0, 1), Rat(5, 4)>>}

\* The files imported, and how many imports a session starts
MaxImports == 2
ImportTexts ==
    {Garbage, Json(Obj([classes |-> Arr(<<>>)])),
     Json(SavedDoc(FullMarks, LinkedSkills)),
     Json(Obj([classes |-> Arr(<< Obj([id |-> Str("B"), rows |-> Whole(2), cols |-> Whole(1),
                                       skills |-> Arr(<<Obj([name |-> Str("Y")])>>)]) >>),
               extra |-> Str("kept")]))}

ImportItems == {NoItem, Json(SavedDoc(FullMarks, LinkedSkills))}

\* Stores for the persistence operations
StoreItems ==
    {NoItem, ReadFails, Garbage} \cup
    {Json(SavedDocWith(FullMarks, LinkedSkills, seats, "grid")) : seats \in SeatsXY}

NoImports == [started |-> 0, pending |-> {}]

\* A stored document of two classes, each with skills of its own
TwoClasses ==
    Obj([classes |-> Arr(<<
            Obj([id |-> Str("A"), name |-> Str("Period 1"),
                 rows |-> Whole(1), cols |-> Whole(2), seats |-> PlainSeats,
                 students |-> Arr(<< Obj([id |-> Str("s1"), name |-> Str("Ann")]),
                                     Obj([id |-> Str("s2"), name |-> Str("Bo")]) >>),
                 marks |-> FullMarks, layoutMode |-> Str("grid")]),
            Obj([id |-> Str("B"), name |-> Str("P2"),
                 rows |-> Whole(1), cols |-> Whole(1),
                 seats |-> Arr(<< Obj([r |-> Whole(0), c |-> Whole(0),
                                      studentId |-> Str("s3")]) >>),
                 students |-> Arr(<< Obj([id |-> Str("s3"), name |-> Str("Cy")]) >>),
                 marks |-> Obj([k3 |-> Obj([s3 |-> Whole(2)])]),
                 layoutMode |-> Str("grid")]) >>),
         skills |-> Arr(<<
            Obj([id |-> Str("k1"), name |-> Str("X"), classIds |-> Arr(<<Str("A")>>)]),
            Obj([id |-> Str("k3"), name |-> Str("Z"), classIds |-> Arr(<<Str("B")>>)]) >>),
         selectedClassId |-> Str("A"),
         selectedSkillId |-> Str("k1")])

SelectItems == {NoItem, Json(TwoClasses)}

\* The texts typed into the prompts of addClass, addSkill, linkSkillToClasses
ClassNames == {"X"}
SkillTexts == {<<"W", "", "NC.7.EE.1">>}
LinkTexts == {"X", " P2 ,,Period 1", "nobody"}

\* The names typed into the roster's input, how long the roster grows, and
\* how many of the assign modal's enabled buttons are tried
\* The column text of the resizes: the one that narrows the default grid
NarrowText == CHOOSE i \in 1..Len(ColTexts) : ColTexts[i] = "2"
\* The cells swapped and assigned: the first two of the top row
AssignCells == {<<0, 0>>, <<0, 1>>}
StudentNames == {" New One "}
MaxRoster == 25
MaxOffers == 1

\* How many classes and skills a session's lists grow to
MaxClassList == 3
MaxSkillList == 3

IdleC == /\ code = Undef /\ res1 = Undef /\ res2 = Undef /\ pcC = "idle"
IdleM == /\ raw = Undef /\ out = Undef /\ pcM = "idle"
IdleA == /\ state = Undef /\ nextUid = 0 /\ store = Undef
         /\ last = Undef /\ streak = Undef /\ prior = Undef
         /\ moveMode = FALSE /\ moveSource = Null /\ dragging = Null
         /\ rowsIn = Undef /\ colsIn = Undef /\ inflight = NoImports
         /\ writable = TRUE

InitClean ==
    /\ code \in CodeInputs
    /\ res1 = Undef /\ res2 = Undef /\ pcC = "start"
    /\ IdleM /\ IdleA

CleanOnce ==
    /\ pcC = "start"
    /\ res1' = cleanStandard(code)
    /\ pcC' = "once"
    /\ UNCHANGED <<code, res2, mvars, avars>>

CleanTwice ==
    /\ pcC = "once"
    /\ res2' = cleanStandard(res1)
    /\ pcC' = "twice"
    /\ UNCHANGED <<code, res1, mvars, avars>>

NextClean == CleanOnce \/ CleanTwice

SpecClean == InitClean /\ [][NextClean]_vars

InitMigrate ==
    /\ raw \in RawInputs(MaxClasses, MaxSkills)
    /\ out = Undef /\ pcM = "start"
    /\ IdleC /\ IdleA

Migrate ==
    /\ pcM = "start"
    /\ \E l \in {migrateLegacy(raw, 0)} : out' = l.v
    /\ pcM' = "done"
    /\ UNCHANGED <<raw, cvars, avars>>

NextMigrate == Migrate

SpecMigrate == InitMigrate /\ [][NextMigrate]_vars

\* useState(currentClass.rows), useState(currentClass.cols); no input is
\* rendered while no class is selected
SizeInput(st, dim) ==
    IF currentClassIndex(st) = 0 THEN Undef
    ELSE Get(Get(st, "classes").a[currentClassIndex(st)], dim)

\* App() is constructed: useState(loadState()), then the save effect
InitFrom(items, accepts) ==
    /\ writable \in accepts
    /\ \E item \in items : \E l \in {loadState(item, 0)} :
        /\ state = l.v
        /\ nextUid = l.k
        /\ store = saveState(l.v, item, writable)
        /\ last = [op |-> "load", item |-> item]
    /\ streak = NoStreak
    /\ prior = Undef
    /\ moveMode = FALSE /\ moveSource = Null /\ dragging = Null
    /\ rowsIn = SizeInput(state, "rows") /\ colsIn = SizeInput(state, "cols")
    /\ inflight = NoImports
    /\ IdleC /\ IdleM

Init == InitFrom(StoredItems, {TRUE})

\* The header and the seating area are rendered: a class is selected
Rendered == IsObjectLike(state) /\ currentClassIndex(state) # 0
CurrentClass == Get(state, "classes").a[currentClassIndex(state)]
LayoutIs(mode) == Get(CurrentClass, "layoutMode") = Str(mode)

\* The effect of line 403 after a render of next that followed one of old:
\* both inputs are reset when the selected class's rows or cols changed
SyncSize(old, next, input, dim) ==
    IF currentClassIndex(next) = 0 THEN input
    ELSE IF /\ currentClassIndex(old) # 0
            /\ SizeInput(next, "rows") = SizeInput(old, "rows")
            /\ SizeInput(next, "cols") = SizeInput(old, "cols")
    THEN input
    ELSE SizeInput(next, dim)

\* setState(next), where the replaced object now holds held; then the
\* effects of the render: the guard effect, saveState and the reset of the
\* size inputs
Commit(next, held) ==
    /\ \E settled \in {guardEffect(next)} :
        /\ state' = settled
        /\ store' = saveState(settled, store, writable)
        /\ rowsIn' = SyncSize(state, settled, rowsIn, "rows")
        /\ colsIn' = SyncSize(state, settled, colsIn, "cols")
    /\ prior' = held
    /\ streak' = NoStreak

\* A click on seat j of the current class when it is occupied (onSeatClickGrid
\* outside move mode): cycleSeatLevel(seat.studentId), then the save effect.
\* last records the event; streak counts the cycles in a row of one (class,
\* skill, student) and the mark stored before the first of them. Gesture is
\* the pointer-up that came just before the click, if one did.
Gesture ==
    IF last.op = "up" THEN [desk |-> last.desk, moved |-> last.moved] ELSE Null

CycleSeatLevel(j) ==
    LET idx == currentClassIndex(state)
        cls == Get(state, "classes").a[idx]
        seats == Get(cls, "seats").a
        studentId == JsToString(Get(seats[j], "studentId"))
        sk == selectedSkill(state)
    IN /\ IsObjectLike(state)
       /\ idx # 0
       /\ IF Get(cls, "layoutMode") = Str("grid") THEN ~moveMode ELSE dragging = Null
       /\ j \in 1..Len(seats)
       /\ Truthy(Get(seats[j], "studentId"))
       /\ IF sk = Null
          THEN /\ last' = [op |-> "cycle", done |-> FALSE, pre |-> state,
                            seat |-> seats[j], after |-> Gesture]
               /\ UNCHANGED <<state, store, streak, prior>>
          ELSE LET skillId == Get(sk, "id").s
                   pair == <<Get(cls, "id").s, skillId, studentId>>
                   again == streak.n > 0 /\ streak.pair = pair
               IN /\ again => streak.n < MaxCycles
                  /\ state' = guardEffect(cycleSeatLevel(state, skillId, studentId))
                  /\ prior' = cycleSeatLevelHeld(state, skillId, studentId)
                  /\ store' = saveState(state', store, writable)
                  /\ last' = [op |-> "cycle", done |-> TRUE, pair |-> pair,
                              before |-> MarkOf(cls, skillId, studentId),
                              pre |-> state, seat |-> seats[j], after |-> Gesture]
                  /\ streak' = IF again THEN [streak EXCEPT !.n = @ + 1]
                               ELSE [n |-> 1, pair |-> pair,
                                     orig |-> MarkOf(cls, skillId, studentId)]
       /\ UNCHANGED <<nextUid, uivars, writable, cvars, mvars>>

Next == \E j \in 1..ClickSeats : CycleSeatLevel(j)

Spec == Init /\ [][Next]_vars

\* The Move Seats button
MoveSeatsButton ==
    /\ Rendered
    /\ moveMode' = ~moveMode
    /\ dragging' = Null
    /\ UNCHANGED <<state, nextUid, store, streak, prior, moveSource, rowsIn, colsIn,
                   inflight, writable, cvars, mvars>>

ToggleMoveMode == MoveSeatsButton /\ last' = [op |-> "mode"]

\* A click on grid cell (r, c) in move mode (onSeatClickGrid): the first click
\* picks the source, the second swaps it with the cell clicked
onSeatClickGrid(r, c) ==
    /\ Rendered /\ LayoutIs("grid") /\ moveMode
    /\ r < Passes(Get(CurrentClass, "rows")) /\ c < Passes(Get(CurrentClass, "cols"))
    /\ LET cell == Obj([r |-> Whole(r), c |-> Whole(c)])
       IN IF moveSource = Null
          THEN /\ moveSource' = cell
               /\ UNCHANGED <<state, store, streak, prior, rowsIn, colsIn>>
          ELSE /\ \E next \in {swapSeats(state, moveSource, cell)} :
                    Commit(next, HeldAfter(state, next))
               /\ moveSource' = Null
    /\ UNCHANGED <<nextUid, moveMode, dragging, inflight, writable, cvars, mvars>>

MoveClick(r, c) ==
    /\ onSeatClickGrid(r, c)
    /\ last' = IF moveSource = Null
               THEN [op |-> "pick"]
               ELSE [op |-> "swap", a |-> moveSource,
                     b |-> Obj([r |-> Whole(r), c |-> Whole(c)]), pre |-> state]

\* Typing into the rows input, into the cols input
SetRows(i) ==
    /\ Rendered
    /\ rowsIn' = SizeTyped(RowTexts[i])
    /\ last' = [op |-> "type"]
    /\ UNCHANGED <<state, nextUid, store, streak, prior, moveMode, moveSource, dragging,
                   colsIn, inflight, writable, cvars, mvars>>

ColsInput(i) ==
    /\ Rendered
    /\ colsIn' = SizeTyped(ColTexts[i])
    /\ UNCHANGED <<state, nextUid, store, streak, prior, moveMode, moveSource, dragging,
                   rowsIn, inflight, writable, cvars, mvars>>

SetCols(i) == ColsInput(i) /\ last' = [op |-> "type"]

\* The Apply button of ResizeLayout
Apply ==
    /\ Rendered
    /\ \E next \in {applySize(state, rowsIn, colsIn)} : Commit(next, HeldAfter(state, next))
    /\ UNCHANGED <<nextUid, moveMode, moveSource, dragging, inflight, writable,
                   cvars, mvars>>

ApplySize ==
    /\ Apply
    /\ last' = [op |-> "resize", rows |-> rowsIn, cols |-> colsIn, pre |-> state]

SeatClicks ==
    \/ \E r \in 0..(ClickSpan - 1) : \E c \in 0..(ClickSpan - 1) : MoveClick(r, c)
    \/ \E j \in 1..ClickSeats : CycleSeatLevel(j)

NextSeats ==
    \/ ToggleMoveMode
    \/ SeatClicks
    \/ \E i \in 1..Len(RowTexts) : SetRows(i)
    \/ \E i \in 1..Len(ColTexts) : SetCols(i)
    \/ ApplySize

InitSeats == InitFrom(SeatItems, {TRUE})

SpecSeats == InitSeats /\ [][NextSeats]_vars

\* The Layout button: the other mode
OtherMode == IF LayoutIs("grid") THEN "free" ELSE "grid"

LayoutButton ==
    /\ Rendered
    /\ \E next \in {setLayoutMode(state, OtherMode)} : Commit(next, HeldAfter(state, next))
    /\ UNCHANGED <<nextUid, moveMode, moveSource, dragging, inflight, writable,
                   cvars, mvars>>

SetLayoutMode ==
    /\ LayoutButton
    /\ last' = [op |-> "layout", mode |-> OtherMode, pre |-> state]

\* Pointer down on desk j of the free layout
PointerDownSeat(j) ==
    /\ Rendered /\ LayoutIs("free")
    /\ j \in 1..Len(Get(CurrentClass, "seats").a)
    /\ dragging' = Obj([r |-> Get(Get(CurrentClass, "seats").a[j], "r"),
                        c |-> Get(Get(CurrentClass, "seats").a[j], "c")])
    /\ last' = [op |-> "down"]
    /\ UNCHANGED <<state, nextUid, store, streak, prior, moveMode, moveSource,
                   rowsIn, colsIn, inflight, writable, cvars, mvars>>

\* Pointer move over the board of the free layout: nothing happens unless a
\* desk is picked up
PointerMoveBoard(spot) ==
    /\ Rendered /\ LayoutIs("free")
    /\ IF dragging = Null
       THEN UNCHANGED <<state, store, streak, prior, rowsIn, colsIn>>
       ELSE \E next \in {pointerMove(state, dragging, spot[1], spot[2])} :
                Commit(next, HeldAfter(state, next))
    /\ last' = [op |-> "drag", dragged |-> dragging, spot |-> spot, pre |-> state]
    /\ UNCHANGED <<nextUid, moveMode, moveSource, dragging, inflight, writable,
                   cvars, mvars>>

\* Pointer up over the board: the desk is put down. last keeps whether the
\* pointer moved it since it was picked up.
PointerUpBoard ==
    /\ Rendered /\ LayoutIs("free") /\ dragging # Null
    /\ dragging' = Null
    /\ last' = [op |-> "up", desk |-> dragging,
                moved |-> last.op = "drag" /\ last.dragged = dragging]
    /\ UNCHANGED <<state, nextUid, store, streak, prior, moveMode, moveSource,
                   rowsIn, colsIn, inflight, writable, cvars, mvars>>

NextLayout ==
    \/ SetLayoutMode
    \/ \E j \in 1..ClickSeats : PointerDownSeat(j)
    \/ \E spot \in DragSpots : PointerMoveBoard(spot)
    \/ PointerUpBoard
    \/ \E j \in 1..ClickSeats : CycleSeatLevel(j)

InitLayout == InitFrom(LayoutItems, {TRUE})

SpecLayout == InitLayout /\ [][NextLayout]_vars

\* importJSON(file): a read of the file's text is started
ImportJSON(text) ==
    /\ Rendered
    /\ inflight.started < MaxImports
    /\ inflight' = [started |-> inflight.started + 1,
                    pending |-> inflight.pending \cup {<<inflight.started + 1, text>>}]
    /\ last' = [op |-> "read"]
    /\ UNCHANGED <<state, nextUid, store, streak, prior, moveMode, moveSource, dragging,
                   rowsIn, colsIn, writable, cvars, mvars>>

\* reader.onload of a pending read
ReaderOnload(f) ==
    /\ f \in inflight.pending
    /\ \E l \in {importJSON(state, f[2], nextUid)} :
        /\ Commit(l.v, state)
        /\ nextUid' = l.k
    /\ inflight' = [inflight EXCEPT !.pending = @ \ {f}]
    /\ last' = [op |-> "import", file |-> f, k |-> nextUid, pre |-> state,
                fired |-> inflight.started - Cardinality(inflight.pending) + 1]
    /\ UNCHANGED <<moveMode, moveSource, dragging, writable, cvars, mvars>>

NextImport ==
    \/ \E text \in ImportTexts : ImportJSON(text)
    \/ \E f \in (1..MaxImports) \X ImportTexts : ReaderOnload(f)
    \/ SetLayoutMode

InitImport == InitFrom(ImportItems, {TRUE})

SpecImport == InitImport /\ [][NextImport]_vars

\* The store starts or stops accepting writes (quota, private mode)
StoreFlips ==
    /\ writable' = ~writable
    /\ last' = [op |-> "store"]
    /\ UNCHANGED <<state, nextUid, store, streak, prior, uivars, cvars, mvars>>

NextStore ==
    \/ StoreFlips
    \/ SetLayoutMode

InitStore == InitFrom(StoreItems, BOOLEAN)

SpecStore == InitStore /\ [][NextStore]_vars

\* The updaters of the five operations below build their result from copies:
\* the object they replace is left as it was, and is not kept (prior).

\* The class select: option j, other than the class shown
SetClass(j) ==
    /\ Rendered
    /\ j \in 1..Len(Get(state, "classes").a)
    /\ ~StrictEq(Get(Get(state, "classes").a[j], "id"), Get(state, "selectedClassId"))
    /\ Commit(setClass(state, Get(Get(state, "classes").a[j], "id")), Undef)
    /\ last' = [op |-> "class"]
    /\ UNCHANGED <<nextUid, moveMode, moveSource, dragging, inflight, writable,
                   cvars, mvars>>

\* The skill select: option j of classSkills, other than the skill shown
SetSkill(j) ==
    /\ Rendered
    /\ j \in 1..Len(classSkills(state))
    /\ ~StrictEq(Get(classSkills(state)[j], "id"), Get(selectedSkill(state), "id"))
    /\ Commit(setSkill(state, Get(classSkills(state)[j], "id")), Undef)
    /\ last' = [op |-> "skill"]
    /\ UNCHANGED <<nextUid, moveMode, moveSource, dragging, inflight, writable,
                   cvars, mvars>>

\* The Add button of the class select, with a name typed into its prompt
AddClass(name) ==
    /\ Rendered
    /\ Len(Get(state, "classes").a) < MaxClassList
    /\ Commit(addClass(state, name, nextUid), Undef)
    /\ nextUid' = nextUid + 1
    /\ last' = [op |-> "addClass"]
    /\ UNCHANGED <<moveMode, moveSource, dragging, inflight, writable, cvars, mvars>>

\* The Add button of the skill select, with its three prompts answered
AddSkill(texts) ==
    /\ Rendered
    /\ Len(Get(state, "skills").a) < MaxSkillList
    /\ Commit(addSkill(state, texts[1], texts[2], texts[3], nextUid), Undef)
    /\ nextUid' = nextUid + 1
    /\ last' = [op |-> "addSkill"]
    /\ UNCHANGED <<moveMode, moveSource, dragging, inflight, writable, cvars, mvars>>

\* The Link button, with class names typed into its prompt
LinkSkill(names) ==
    /\ Rendered
    /\ Commit(linkSkillToClasses(state, names), Undef)
    /\ last' = [op |-> "link"]
    /\ UNCHANGED <<nextUid, moveMode, moveSource, dragging, inflight, writable,
                   cvars, mvars>>

\* "Reset current layer", confirmed, pressed while the seats display a mark
ClearMarks ==
    /\ Rendered
    /\ Truthy(selectedSkill(state))
    /\ Get(CurrentClass, "marks").t = "object"
    /\ Get(Get(CurrentClass, "marks"), JsToString(Get(selectedSkill(state), "id")))
            \notin {Undef, Null, Obj(NoProps)}
    /\ \E next \in {clearMarks(state)} : Commit(next, HeldAfter(state, next))
    /\ last' = [op |-> "clear", pre |-> state]
    /\ UNCHANGED <<nextUid, moveMode, moveSource, dragging, inflight, writable,
                   cvars, mvars>>

NextSelect ==
    \/ \E j \in 1..MaxClassList : SetClass(j)
    \/ \E j \in 1..MaxSkillList : SetSkill(j)
    \/ \E name \in ClassNames : AddClass(name)
    \/ \E texts \in SkillTexts : AddSkill(texts)
    \/ \E names \in LinkTexts : LinkSkill(names)

InitSelect == InitFrom(SelectItems, {TRUE})

SpecSelect == InitSelect /\ [][NextSelect]_vars

\* The page is loaded again: App() is constructed on what the store holds
Reload ==
    /\ last.op = "load"
    /\ \E l \in {loadState(store, nextUid)} :
        /\ state' = l.v
        /\ nextUid' = l.k
        /\ store' = saveState(l.v, store, writable)
        /\ rowsIn' = SizeInput(l.v, "rows") /\ colsIn' = SizeInput(l.v, "cols")
    /\ last' = [op |-> "reload", pre |-> state]
    /\ prior' = Undef /\ streak' = NoStreak
    /\ moveMode' = FALSE /\ moveSource' = Null /\ dragging' = Null
    /\ inflight' = NoImports
    /\ UNCHANGED <<writable, cvars, mvars>>

NextReload == Reload

InitReload == InitFrom(RawInputs(MaxClasses, MaxSkills), {TRUE})

SpecReload == InitReload /\ [][NextReload]_vars

\* The history of a session whose steps are not recorded
Unrecorded == [op |-> "step"]

\* The assign modal opened on grid cell or desk (r, c) (double click or
\* context menu) and one of its buttons pressed: "(empty)" for n = 0, the
\* n-th enabled student otherwise. The modal covers the page while it is open.
AssignSeat(r, c, n) ==
    /\ Rendered
    /\ IF LayoutIs("grid")
       THEN /\ r < Passes(Get(CurrentClass, "rows"))
            /\ c < Passes(Get(CurrentClass, "cols"))
       ELSE SeatAt(Get(CurrentClass, "seats").a, Obj([r |-> Whole(r), c |-> Whole(c)])) # 0
    /\ \E offers \in {AssignChoices(state)} :
       /\ n <= Len(offers)
       /\ LET who == IF n = 0 THEN Null ELSE offers[n]
          IN /\ \E next \in {assignSeat(state, Obj([r |-> Whole(r), c |-> Whole(c)]), who)} :
                   Commit(next, HeldAfter(state, next))
             /\ last' = Unrecorded
    /\ UNCHANGED <<nextUid, moveMode, moveSource, dragging, inflight, writable,
                   cvars, mvars>>

\* The Add button of the roster, with a name typed
AddStudent(name) ==
    /\ Rendered
    /\ Len(Get(CurrentClass, "students").a) < MaxRoster
    /\ \E next \in {addStudent(state, name, nextUid)} : Commit(next, HeldAfter(state, next))
    /\ nextUid' = nextUid + 1
    /\ last' = Unrecorded
    /\ UNCHANGED <<moveMode, moveSource, dragging, inflight, writable, cvars, mvars>>

\* The Move Seats button, the move click, the cols input, the Apply button
\* and the Layout button, unrecorded
MoveSeats == MoveSeatsButton /\ last' = Unrecorded
SwapClick(r, c) == onSeatClickGrid(r, c) /\ last' = Unrecorded
Narrow == ColsInput(NarrowText) /\ last' = Unrecorded
Resize == Apply /\ last' = Unrecorded
Relayout == LayoutButton /\ last' = Unrecorded

NextAssign ==
    \/ MoveSeats
    \/ \E cell \in AssignCells : SwapClick(cell[1], cell[2])
    \/ \E cell \in AssignCells : \E n \in 0..MaxOffers : AssignSeat(cell[1], cell[2], n)
    \/ Narrow
    \/ Resize
    \/ \E name \in StudentNames : AddStudent(name)
    \/ Relayout

InitAssign == InitFrom({NoItem}, {TRUE})

SpecAssign == InitAssign /\ [][NextAssign]_vars

NextClear ==
    \/ \E j \in 1..MaxClassList : SetClass(j)
    \/ \E j \in 1..ClickSeats : CycleSeatLevel(j)
    \/ ClearMarks

InitClear == InitFrom({Json(TwoClasses)}, {TRUE})

SpecClear == InitClear /\ [][NextClear]_vars

----------------------------------------------------------------------------
(* Properties of the Normalizer *)

\* Readers that are defined on any value
ArrayOf(x) == IF IsArray(x) THEN x.a ELSE <<>>
Classes(st) == ArrayOf(Get(st, "classes"))
Skills(st) == ArrayOf(Get(st, "skills"))
Seats(cl) == ArrayOf(Get(cl, "seats"))
ClassIds(sk) == ArrayOf(Get(sk, "classIds"))

\* The inputs of the three cases of C1
NotJson == ~raw.ok
NotAnObject == raw.ok /\ ~IsObjectLike(raw.doc)
\* a step throws: the classes list holds a null, whose properties are read
NullClass == /\ raw.ok /\ IsObjectLike(raw.doc)
             /\ \E j \in 1..Len(Classes(raw.doc)) : Classes(raw.doc)[j].t = "null"

\* st has the shape DEFAULT_STATE() builds: one 4 x 6 grid class whose 24
\* seats are occupied in order by its 24 students, two skills linked to it,
\* and both selections pointing at the class and the first skill
IsDefaultShape(st) ==
    /\ st.t = "object"
    /\ Len(Classes(st)) = 1
    /\ Len(Skills(st)) = 2
    /\ LET cl == Classes(st)[1]
           students == ArrayOf(Get(cl, "students"))
       IN /\ IsString(Get(cl, "id"))
          /\ Get(cl, "rows") = Whole(4) /\ Get(cl, "cols") = Whole(6)
          /\ Get(cl, "layoutMode") = Str("grid")
          /\ Get(cl, "marks").t = "object"
          /\ Len(students) = 24
          /\ Len(Seats(cl)) = 24
          /\ \A j \in 1..Len(Seats(cl)) :
                /\ Get(Seats(cl)[j], "r") = Whole((j - 1) \div 6)
                /\ Get(Seats(cl)[j], "c") = Whole((j - 1) % 6)
                /\ j <= Len(students)
                /\ IsString(Get(Seats(cl)[j], "studentId"))
                /\ Get(Seats(cl)[j], "studentId") = Get(students[j], "id")
          /\ \A j \in 1..Len(Skills(st)) :
                /\ IsString(Get(Skills(st)[j], "id"))
                /\ ClassIds(Skills(st)[j]) = <<Get(cl, "id")>>
          /\ Get(st, "selectedClassId") = Get(cl, "id")
          /\ Get(st, "selectedSkillId") = Get(Skills(st)[1], "id")

\* C1: migrateLegacy always returns a state; for a text that is not JSON, that
\* parses to a non-object, or that makes a step throw, the state returned is a
\* complete default state, never the partially normalized working value.
C1_FallbackIsDefault ==
    pcM = "done" =>
        /\ IsObjectLike(out) /\ IsArray(Get(out, "classes")) /\ IsArray(Get(out, "skills"))
        /\ (NotJson \/ NotAnObject \/ NullClass) => IsDefaultShape(out)

\* C1 witness: a document whose first class is an object and whose second is
\* null was normalized: the exception came after the working value was touched
C1_Witness ==
    /\ pcM = "done" /\ NullClass
    /\ Len(Classes(raw.doc)) = 2
    /\ Classes(raw.doc)[1].t = "object"
    /\ IsArray(Get(Classes(raw.doc)[1], "skills"))

\* C2: selectedSkillId of the output is null or absent, or names a skill of
\* the registry whose classIds includes the output's selectedClassId.
C2_SelectedSkillLinked ==
    pcM = "done" =>
        \/ Get(out, "selectedSkillId").t \in {"null", "undefined"}
        \/ \E j \in 1..Len(Skills(out)) :
            /\ StrictEq(Get(Skills(out)[j], "id"), Get(out, "selectedSkillId"))
            /\ Includes(ClassIds(Skills(out)[j]), Get(out, "selectedClassId"))

\* C3: selectedClassId of the output is the id of a class of the output.
C3_SelectedClassExists ==
    pcM = "done" =>
        \E j \in 1..Len(Classes(out)) :
            StrictEq(Get(Classes(out)[j], "id"), Get(out, "selectedClassId"))

\* The classes of the input document, when every one of them is normalized
InputClasses ==
    IF raw.ok /\ IsObjectLike(raw.doc) /\ IsArray(Get(raw.doc, "classes")) /\ ~NullClass
    THEN Classes(raw.doc) ELSE <<>>

\* C4: a class declaring finite numbers R and C comes out with rows = clamp(R),
\* cols = clamp(C), both in [1,24], and exactly rows x cols seats, seat number
\* i (from 0) at row i div cols and column i mod cols; a class declaring no
\* number comes out with rows 4 or cols 6.
C4_SeatGrid ==
    pcM = "done" =>
        \A j \in 1..Len(InputClasses) :
            LET R == Get(InputClasses[j], "rows")
                C == Get(InputClasses[j], "cols")
                cl == Classes(out)[j]
                rows == Get(cl, "rows").n
                cols == Get(cl, "cols").n
            IN /\ ~IsNumber(R) => rows = 4 * Den
               /\ ~IsNumber(C) => cols = 6 * Den
               /\ (IsNumber(R) /\ IsNumber(C)) =>
                    /\ rows = (IF R.n < Den THEN Den ELSE IF R.n > 24 * Den THEN 24 * Den ELSE R.n)
                    /\ cols = (IF C.n < Den THEN Den ELSE IF C.n > 24 * Den THEN 24 * Den ELSE C.n)
                    /\ Len(Seats(cl)) * Den * Den = rows * cols
                    /\ \A i \in 1..Len(Seats(cl)) :
                        /\ Get(Seats(cl)[i], "r") = Whole((i - 1) \div (cols \div Den))
                        /\ Get(Seats(cl)[i], "c") = Whole((i - 1) % (cols \div Den))

\* C5: no skill of the output registry has a null or undefined entry in its
\* classIds.
C5_NoNullClassIds ==
    pcM = "done" =>
        \A j \in 1..Len(Skills(out)) :
            \A i \in 1..Len(ClassIds(Skills(out)[j])) :
                ClassIds(Skills(out)[j])[i].t \notin {"null", "undefined"}

\* A legacy document: an object without a skills list whose classes are
\* objects carrying pairwise distinct, non-empty string ids
LegacyDoc ==
    /\ raw.ok /\ IsObjectLike(raw.doc) /\ ~IsArray(Get(raw.doc, "skills"))
    /\ InputClasses # <<>>
    /\ \A j \in 1..Len(InputClasses) :
        /\ InputClasses[j].t = "object"
        /\ IsString(Get(InputClasses[j], "id")) /\ Get(InputClasses[j], "id") # Str("")
        /\ \A i \in 1..Len(InputClasses) :
            i # j => Get(InputClasses[i], "id") # Get(InputClasses[j], "id")

\* The nested skill entries of input class j that are objects
NestedOf(j) ==
    LET l == ArrayOf(Get(InputClasses[j], "skills"))
    IN {l[i] : i \in {i \in 1..Len(l) : IsObjectLike(l[i])}}

\* name, domain and cleaned standard code of a nested entry, and of a skill
TripleOfEntry(e) ==
    << IF IsString(Get(e, "name")) THEN Get(e, "name") ELSE Str("(unnamed skill)"),
       IF IsString(Get(e, "domain")) THEN Get(e, "domain") ELSE Undef,
       cleanStandard(Get(e, "standardCode")) >>
TripleOfSkill(sk) == <<Get(sk, "name"), Get(sk, "domain"), Get(sk, "standardCode")>>

Count(seq, x) == Cardinality({i \in 1..Len(seq) : seq[i] = x})

\* C6: when two classes of a legacy document each nest a skill with the same
\* name, domain and cleaned standard code, the registry has exactly one entry
\* for it and that entry's classIds holds the id of each of the two classes
\* exactly once, whatever ids the nested entries carry.
C6_LiftedOnce ==
    (pcM = "done" /\ LegacyDoc) =>
        \A j1 \in 1..Len(InputClasses) : \A j2 \in 1..Len(InputClasses) :
            j1 < j2 =>
                \A e1 \in NestedOf(j1) : \A e2 \in NestedOf(j2) :
                    TripleOfEntry(e1) = TripleOfEntry(e2) =>
                        LET entries == {i \in 1..Len(Skills(out)) :
                                TripleOfSkill(Skills(out)[i]) = TripleOfEntry(e1)}
                        IN /\ Cardinality(entries) = 1
                           /\ \A i \in entries :
                                /\ Count(ClassIds(Skills(out)[i]), Get(InputClasses[j1], "id")) = 1
                                /\ Count(ClassIds(Skills(out)[i]), Get(InputClasses[j2], "id")) = 1

\* C7: a string beginning with "NC.7." is cleaned to one that does not begin
\* with it, a string not beginning with it is returned unchanged, and a
\* non-string is returned as it is.
C7_Cleaned ==
    pcC \in {"once", "twice"} =>
        /\ (IsString(code) /\ HasNC7(code.s)) => (IsString(res1) /\ ~HasNC7(res1.s))
        /\ (IsString(code) /\ ~HasNC7(code.s)) => res1 = code
        /\ ~IsString(code) => res1 = code

\* C8: cleanStandard is idempotent: a second application changes nothing.
C8_Idempotent == pcC = "twice" => res2 = res1

----------------------------------------------------------------------------
(* Properties of level cycling *)

\* The mark now stored for the (class, skill, student) of pair
MarkNow(pair) ==
    LET WithId(c) == StrictEq(Get(c, "id"), Str(pair[1]))
        at == FirstIndex(Classes(state), WithId)
    IN IF at = 0 THEN Undef ELSE MarkOf(Classes(state)[at], pair[2], pair[3])

\* A stored mark in {0,1,2,3,4}, or none
IsLevelOrMissing(m) ==
    m.t = "undefined" \/ (IsNumber(m) /\ \E i \in 0..4 : m = Whole(i))
LevelOf(m) == IF m.t = "undefined" THEN 0 ELSE m.n \div Den

\* C9: the mark a level cycle writes is an integer in [0,4], whatever mark was
\* stored before.
C9_CycleWritesLevel ==
    (last.op = "cycle" /\ last.done) =>
        \E i \in 0..4 : MarkNow(last.pair) = Whole(i)

\* C10: a level cycle from a stored mark in {0,1,2,3,4}, or from no mark
\* (taken as 0), stores (current + 1) mod 5, so 4 is followed by 0; and five
\* cycles in a row of one (skill, student) pair bring the level back to the
\* one they started from.
C10_CycleMod5 ==
    /\ (last.op = "cycle" /\ last.done /\ IsLevelOrMissing(last.before)) =>
            MarkNow(last.pair) = Whole((LevelOf(last.before) + 1) % 5)
    /\ (streak.n = 5 /\ IsLevelOrMissing(streak.orig)) =>
            MarkNow(streak.pair) = Whole(LevelOf(streak.orig))

\* C10 witness: the fifth cycle in a row of a pair that started at level 2
C10_Witness ==
    /\ last.op = "cycle" /\ last.done
    /\ streak.n = 5 /\ streak.orig = Whole(2)
    /\ last.before = Whole(1)

----------------------------------------------------------------------------
(* Frame and purity of the updates *)

\* The properties of an object or the empty set of them
Props(x) == IF x.t = "object" THEN DOMAIN x.o ELSE {}

\* a and b agree on every property but k
SameBut(a, b, k) ==
    /\ a.t = b.t
    /\ Props(a) \ {k} = Props(b) \ {k}
    /\ \A f \in Props(a) \ {k} : Get(a, f) = Get(b, f)

\* C11: a level cycle changes nothing but the mark of the (selected skill,
\* clicked student) pair in the marks table of the selected class; without a
\* selected skill it changes nothing at all.
C11_CycleFrame ==
    last.op = "cycle" =>
        IF ~last.done THEN state = last.pre
        ELSE LET idx == currentClassIndex(last.pre)
                 old == Classes(last.pre)
                 new == Classes(state)
             IN /\ SameBut(state, last.pre, "classes")
                /\ Len(new) = Len(old)
                /\ \A j \in 1..Len(old) : j # idx => new[j] = old[j]
                /\ SameBut(new[idx], old[idx], "marks")
                /\ SameBut(Get(new[idx], "marks"), Get(old[idx], "marks"), last.pair[2])
                /\ \A s \in Props(Get(Get(old[idx], "marks"), last.pair[2])) \ {last.pair[3]} :
                        MarkOf(new[idx], last.pair[2], s) = MarkOf(old[idx], last.pair[2], s)
                /\ Props(Get(Get(new[idx], "marks"), last.pair[2])) =
                        Props(Get(Get(old[idx], "marks"), last.pair[2])) \cup {last.pair[3]}

\* C11 witness: a cycle of s1 for k1 in a table that also held a mark of s2
\* for k1 and a row for k2
C11_Witness ==
    /\ last.op = "cycle" /\ last.done /\ last.pair = <<"A", "k1", "s1">>
    /\ LET marks == Get(Classes(last.pre)[currentClassIndex(last.pre)], "marks")
       IN /\ IsNumber(Get(Get(marks, "k1"), "s2"))
          /\ IsObjectLike(Get(marks, "k2"))

\* The occupants of a seat list, seat by seat
Occupants(seats) == [j \in 1..Len(seats) |-> Get(seats[j], "studentId")]

\* C12: swapSeats(a, b) exchanges the occupants of the seats at a and b of the
\* selected class, empty or not, and changes nothing else, so every occupant
\* is there as often as before; when a or b matches no seat the state is as
\* it was.
C12_SwapFrame ==
    last.op = "swap" =>
        LET idx == currentClassIndex(last.pre)
            old == Seats(Classes(last.pre)[idx])
            new == Seats(Classes(state)[idx])
            sa == SeatAt(old, last.a)
            sb == SeatAt(old, last.b)
        IN IF sa = 0 \/ sb = 0 THEN state = last.pre
           ELSE /\ SameBut(state, last.pre, "classes")
                /\ Len(Classes(state)) = Len(Classes(last.pre))
                /\ \A j \in 1..Len(Classes(state)) :
                        j # idx => Classes(state)[j] = Classes(last.pre)[j]
                /\ SameBut(Classes(state)[idx], Classes(last.pre)[idx], "seats")
                /\ Len(new) = Len(old)
                /\ \A j \in 1..Len(old) : SameBut(new[j], old[j], "studentId")
                /\ Occupants(new)[sa] = Occupants(old)[sb]
                /\ Occupants(new)[sb] = Occupants(old)[sa]
                /\ \A j \in 1..Len(old) :
                        j \notin {sa, sb} => Occupants(new)[j] = Occupants(old)[j]
                /\ \A j \in 1..Len(old) :
                        Count(Occupants(new), Occupants(old)[j]) =
                            Count(Occupants(old), Occupants(old)[j])

\* C12 witness: an occupied seat was swapped with an empty one
C12_Witness ==
    /\ last.op = "swap"
    /\ LET old == Seats(Classes(last.pre)[currentClassIndex(last.pre)])
           sa == SeatAt(old, last.a)
           sb == SeatAt(old, last.b)
       IN /\ sa # 0 /\ sb # 0 /\ sa # sb
          /\ IsString(Occupants(old)[sa])
          /\ Occupants(old)[sb] = Null

\* C13: level cycling and seat swap leave the state object they were given as
\* it was: what the replaced object holds after the update is what it held
\* before.
C13_PriorUntouched ==
    ((last.op = "cycle" /\ last.done) \/ last.op = "swap") => prior = last.pre

----------------------------------------------------------------------------
(* Import *)

\* C14: when the read callback of an import fires, the state becomes the
\* Normalizer's output for the file's text: a default state for a text that is
\* not JSON, and no property that neither the Normalizer sets nor the file
\* carries; whichever import's callback fires last decides the state.
C14_ImportReplaces ==
    last.op = "import" =>
        /\ state = migrateLegacy(last.file[2], last.k).v
        /\ ~last.file[2].ok => IsDefaultShape(state)
        /\ Props(state) \subseteq
                {"classes", "skills", "selectedClassId", "selectedSkillId"}
                    \cup Props(last.file[2].doc)

\* C14 witness: of two imports in flight the one started first fired last,
\* with a layout switch in between, and replaced what the other had set
C14_Witness ==
    /\ last.op = "import" /\ last.fired = 2 /\ last.file[1] = 1
    /\ inflight.pending = {}
    /\ last.pre # state
    /\ \E j \in 1..Len(Classes(last.pre)) :
            Get(Classes(last.pre)[j], "layoutMode") = Str("free")

----------------------------------------------------------------------------
(* The default state *)

\* C15: DEFAULT_STATE() is one 4 x 6 grid class of 24 students with pairwise
\* distinct ids named "Student 1" to "Student 24", seat i held by student i in
\* row-major order, two seed skills linked to exactly that class, each with
\* an empty row of marks, and both selections set to the class and to the
\* first skill.
C15_DefaultState ==
    (last.op = "load" /\ last.item = NoItem) =>
        /\ IsDefaultShape(state)
        /\ Props(state) = {"classes", "skills", "selectedClassId", "selectedSkillId"}
        /\ LET cl == Classes(state)[1]
               students == ArrayOf(Get(cl, "students"))
           IN /\ Get(cl, "name") = Str("Period 1")
              /\ \A i \in 1..Len(students) : \A j \in 1..Len(students) :
                    i # j => Get(students[i], "id") # Get(students[j], "id")
              /\ \A i \in 1..Len(students) :
                    /\ IsString(Get(students[i], "id"))
                    /\ Get(students[i], "name") = Str("Student " \o ToString(i))
              /\ \A j \in 1..Len(Skills(state)) :
                    /\ Get(Skills(state)[j], "id") # Get(cl, "id")
                    /\ Get(Get(cl, "marks"), Get(Skills(state)[j], "id").s) = Obj(NoProps)
                    /\ IsString(Get(Skills(state)[j], "name"))
                    /\ IsString(Get(Skills(state)[j], "standardCode"))
                    /\ ~HasNC7(Get(Skills(state)[j], "standardCode").s)
              /\ Get(Skills(state)[1], "id") # Get(Skills(state)[2], "id")

\* C15 witness: the App started on an empty store
C15_Witness == last.op = "load" /\ last.item = NoItem /\ IsObjectLike(state)

----------------------------------------------------------------------------
(* Free layout *)

HasBoth(s) == IsNumber(Get(s, "x")) /\ IsNumber(Get(s, "y"))

\* v = (a + 1/2) / b, by cross multiplication
IsCellCenter(v, a, b) ==
    /\ IsNumber(v) /\ ~IsNaN(v)
    /\ Numer(v) * 2 * Numer(b) * Denom(a) = (2 * Numer(a) + Denom(a)) * Denom(b) * Denom(v)

\* C16: a switch to the free layout gives every seat of the selected class
\* that lacks a coordinate x = (c + 0.5) / cols and y = (r + 0.5) / rows, leaves
\* every seat that has both as it is, changes no occupant, no other class and
\* nothing else but the layout mode, and leaves every seat with both.
C16_EnsureXY ==
    (last.op = "layout" /\ last.mode = "free") =>
        LET idx == currentClassIndex(last.pre)
            oldc == Classes(last.pre)[idx]
            newc == Classes(state)[idx]
            old == Seats(oldc)
            new == Seats(newc)
        IN /\ SameBut(state, last.pre, "classes")
           /\ Len(Classes(state)) = Len(Classes(last.pre))
           /\ \A j \in 1..Len(Classes(state)) :
                    j # idx => Classes(state)[j] = Classes(last.pre)[j]
           /\ SameBut(Set(newc, "layoutMode", Null), Set(oldc, "layoutMode", Null), "seats")
           /\ Get(newc, "layoutMode") = Str("free")
           /\ Len(new) = Len(old)
           /\ \A j \in 1..Len(old) :
                /\ HasBoth(new[j])
                /\ IF HasBoth(old[j]) THEN new[j] = old[j]
                   ELSE /\ SameBut(Set(new[j], "x", Null), Set(old[j], "x", Null), "y")
                        /\ IsCellCenter(Get(new[j], "x"), Get(old[j], "c"), Get(oldc, "cols"))
                        /\ IsCellCenter(Get(new[j], "y"), Get(old[j], "r"), Get(oldc, "rows"))

\* C16 witness: the class switched had a seat with both coordinates and a
\* seat with none
C16_Witness ==
    /\ last.op = "layout" /\ last.mode = "free"
    /\ LET old == Seats(Classes(last.pre)[currentClassIndex(last.pre)])
       IN /\ \E j \in 1..Len(old) : HasBoth(old[j])
          /\ \E j \in 1..Len(old) :
                Get(old[j], "x").t = "undefined" /\ Get(old[j], "y").t = "undefined"

----------------------------------------------------------------------------
(* Persistence *)

\* C17: loadState gives a default state when the read fails or finds nothing
\* and the Normalizer's output for the stored text otherwise; a write the store
\* refuses stops no update of the state: the layout switch takes effect.
C17_StoreFailures ==
    /\ last.op = "load" =>
            IF last.item \in {ReadFails, NoItem} THEN IsDefaultShape(state)
            ELSE state = migrateLegacy(last.item, 0).v
    /\ last.op = "layout" =>
            /\ IsObjectLike(state)
            /\ Get(Classes(state)[currentClassIndex(state)], "layoutMode") = Str(last.mode)

\* C17 witness: a layout switch while the store refused the write: the state
\* moved on and the store still holds the older text
C17_Witness ==
    /\ last.op = "layout" /\ ~writable
    /\ state # last.pre
    /\ store # JSON_stringify(state)

----------------------------------------------------------------------------
(* More properties of the Normalizer *)

\* C18: every seat of the output has a studentId that is a string or null.
C18_OccupantStringOrNull ==
    pcM = "done" =>
        \A j \in 1..Len(Classes(out)) :
            \A i \in 1..Len(Seats(Classes(out)[j])) :
                LET sid == Get(Seats(Classes(out)[j])[i], "studentId")
                IN IsString(sid) \/ sid = Null

\* An object of the legacy shape whose classes are all normalized
LegacyShape ==
    raw.ok /\ IsObjectLike(raw.doc) /\ ~IsArray(Get(raw.doc, "skills"))

\* C19: in the legacy shape every nested skill entry that is an object has a
\* registry skill with its name, domain and cleaned standard code whose
\* classIds includes the id its class has in the output, and no class of the
\* output keeps a non-empty nested skills field.
C19_LiftedLinked ==
    (pcM = "done" /\ LegacyShape) =>
        \A j \in 1..Len(InputClasses) :
            /\ ArrayOf(Get(Classes(out)[j], "skills")) = <<>>
            /\ \A e \in NestedOf(j) :
                    \E i \in 1..Len(Skills(out)) :
                        /\ TripleOfSkill(Skills(out)[i]) = TripleOfEntry(e)
                        /\ Includes(ClassIds(Skills(out)[i]), Get(Classes(out)[j], "id"))

----------------------------------------------------------------------------
(* Resize *)

\* C20: after a resize the selected class has rows and cols in [1,24], one
\* seat for each cell of its rows x cols grid and no other, and every seat
\* that was there before with its occupant.
C20_GridAfterResize ==
    last.op = "resize" =>
        LET cl == Classes(state)[currentClassIndex(state)]
            old == Seats(Classes(last.pre)[currentClassIndex(last.pre)])
            new == Seats(cl)
            R == Get(cl, "rows")
            C == Get(cl, "cols")
        IN /\ \E n \in 1..24 : R = Whole(n)
           /\ \E n \in 1..24 : C = Whole(n)
           /\ Len(new) * Den * Den = R.n * C.n
           /\ \A r \in 0..(Passes(R) - 1) : \A c \in 0..(Passes(C) - 1) :
                Cardinality({j \in 1..Len(new) :
                    Get(new[j], "r") = Whole(r) /\ Get(new[j], "c") = Whole(c)}) = 1
           /\ \A j \in 1..Len(new) :
                SeatAt(old, new[j]) # 0 =>
                    Get(new[j], "studentId") = Get(old[SeatAt(old, new[j])], "studentId")

----------------------------------------------------------------------------
(* Selection *)

\* C21: after a class selection, a skill selection, a class creation, a skill
\* creation or a skill linking, and the effects that follow it,
\* selectedSkillId is absent or the id of a skill linked to the selected
\* class.
C21_SelectedSkillLinked ==
    (Rendered /\ last.op \in {"class", "skill", "addClass", "addSkill", "link"}) =>
        \/ Get(state, "selectedSkillId").t \in {"null", "undefined"}
        \/ \E j \in 1..Len(classSkills(state)) :
                StrictEq(Get(classSkills(state)[j], "id"), Get(state, "selectedSkillId"))

\* C26: a confirmed "Reset current layer" leaves the selected class with an
\* empty row of marks for the skill its seats display and level cycling
\* writes to.
C26_ClearsShownSkill ==
    (last.op = "clear" /\ Truthy(selectedSkill(last.pre))) =>
        /\ StoredSkill(last.pre) = selectedSkill(last.pre)
        /\ Get(Get(CurrentClass, "marks"),
               JsToString(Get(selectedSkill(last.pre), "id"))) = Obj(NoProps)

----------------------------------------------------------------------------
(* Drags *)

\* 0.02 <= v <= 0.98, by cross multiplication
InBoard(v) ==
    /\ IsNumber(v) /\ ~IsNaN(v)
    /\ 2 * Denom(v) <= 100 * Numer(v)
    /\ 100 * Numer(v) <= 98 * Denom(v)

\* C22: a pointer move over the board while a desk is picked up gives the
\* desk picked up, and no other, both coordinates in [0.02, 0.98] (the
\* pointer's own position when that is in the range), and changes no
\* occupant, no other seat, no other class and nothing else of the state;
\* with no desk picked up it changes nothing.
C22_DragClamped ==
    last.op = "drag" =>
        IF last.dragged = Null THEN state = last.pre
        ELSE LET idx == currentClassIndex(last.pre)
                 old == Seats(Classes(last.pre)[idx])
                 new == Seats(Classes(state)[idx])
                 d == SeatAt(old, last.dragged)
             IN /\ SameBut(state, last.pre, "classes")
                /\ Len(Classes(state)) = Len(Classes(last.pre))
                /\ \A j \in 1..Len(Classes(state)) :
                        j # idx => Classes(state)[j] = Classes(last.pre)[j]
                /\ SameBut(Classes(state)[idx], Classes(last.pre)[idx], "seats")
                /\ Len(new) = Len(old)
                /\ \A j \in 1..Len(old) : j # d => new[j] = old[j]
                /\ d # 0 =>
                        /\ SameBut(Set(new[d], "x", Null), Set(old[d], "x", Null), "y")
                        /\ InBoard(Get(new[d], "x")) /\ InBoard(Get(new[d], "y"))
                        /\ InBoard(last.spot[1]) => Get(new[d], "x") = last.spot[1]
                        /\ InBoard(last.spot[2]) => Get(new[d], "y") = last.spot[2]

\* C22 witness: a desk was dragged to a spot beyond the board's edge
C22_Witness ==
    /\ last.op = "drag" /\ last.dragged # Null
    /\ ~InBoard(last.spot[1]) /\ ~InBoard(last.spot[2])
    /\ state # last.pre

\* C28: the click that follows a drag of an occupied desk (pointer down on
\* the desk, pointer moves, pointer up) changes no mark.
C28_DragKeepsMarks ==
    (/\ last.op = "cycle" /\ last.after # Null
     /\ last.after.moved
     /\ Get(last.after.desk, "r") = Get(last.seat, "r")
     /\ Get(last.after.desk, "c") = Get(last.seat, "c")) =>
        Get(CurrentClass, "marks") =
            Get(Classes(last.pre)[currentClassIndex(last.pre)], "marks")

----------------------------------------------------------------------------
(* Skill ids, dedup keys, reload *)

\* C23: the skills of the output have pairwise distinct ids.
C23_DistinctSkillIds ==
    pcM = "done" =>
        \A i \in 1..Len(Skills(out)) : \A j \in 1..Len(Skills(out)) :
            i # j => Get(Skills(out)[i], "id") # Get(Skills(out)[j], "id")

\* C24: in the legacy shape nested skills of different name, domain or
\* cleaned standard code are not merged: every nested entry has a registry
\* skill with its own name, domain and cleaned code.
C24_KeyTellsTriplesApart ==
    (pcM = "done" /\ LegacyShape) =>
        \A j \in 1..Len(InputClasses) :
            \A e \in NestedOf(j) :
                \E i \in 1..Len(Skills(out)) :
                    TripleOfSkill(Skills(out)[i]) = TripleOfEntry(e)

\* C27: a state the Normalizer returned, saved and loaded again, is the state
\* it was, properties that hold undefined taken as absent.
C27_RoundTrip ==
    last.op = "reload" => Jsonify(state) = Jsonify(last.pre)

----------------------------------------------------------------------------
(* Seat assignment *)

\* C25: from the default state, through swaps, assignments in the assign
\* modal, resizes, roster additions and layout changes, no student id is the
\* studentId of two seats of the class.
C25_OneSeatEach ==
    Rendered =>
        LET seats == Seats(CurrentClass)
        IN \A i \in 1..Len(seats) : \A j \in 1..Len(seats) :
            (i # j /\ IsString(Get(seats[i], "studentId"))) =>
                Get(seats[i], "studentId") # Get(seats[j], "studentId")

\* C25 witness: on the narrowed grid an assignment has seated, in one of the
\* cells, a student the resize had left without a seat (one whose seat of the
\* default state was in neither cell, which no swap brings there)
C25_Witness ==
    /\ Rendered /\ last = Unrecorded
    /\ Len(Seats(CurrentClass)) < DefaultRows * DefaultCols
    /\ \E j \in 1..Len(Seats(CurrentClass)) :
        LET seat == Seats(CurrentClass)[j]
            Started(cell) ==
                LET first == Seats(Get(DEFAULT_STATE(0), "classes").a[1])
                IN Get(first[SeatAt(first, Obj([r |-> Whole(cell[1]),
                                                c |-> Whole(cell[2])]))], "studentId")
        IN /\ IsString(Get(seat, "studentId"))
           /\ \E cell \in AssignCells :
                Get(seat, "r") = Whole(cell[1]) /\ Get(seat, "c") = Whole(cell[2])
           /\ \A cell \in AssignCells : Get(seat, "studentId") # Started(cell)

====
